---- MODULE Spec2Model ----
(***************************************************************************)
(* Model of the graph-construction core of packages/embeddings:            *)
(*   text/chunker.rs  chunk_text, spans_to_chunk, split_by_words,          *)
(*                    split_sentences                                      *)
(*   graph/nodes.rs   build_nodes                                          *)
(* A text is a sequence of characters; offsets are byte offsets, so every  *)
(* character carries its UTF-8 width.                                      *)
(***************************************************************************)
EXTENDS Integers, Sequences, FiniteSets, TLC

(***************************************************************************)
(* Bounds of the chunker model.                                            *)
(***************************************************************************)
MaxLen == 6
MaxTokensBound == 2
MaxOverlapBound == 2

\* Characters: "a" a one-byte alphanumeric, "U" a two-byte alphanumeric
\* (such as U+00E9), " " whitespace, "." terminal punctuation ('?' and '!'
\* are handled by the code exactly as '.').  The section sign is two bytes
\* long as well.
Alphabet == {"a", "U", " ", "."}

\* the sequences over S of length at most n
RECURSIVE SeqsUpTo(_, _)
SeqsUpTo(S, n) ==
    IF n = 0 THEN {<<>>}
    ELSE LET prev == SeqsUpTo(S, n - 1)
         IN  prev \cup {Append(s, c) : s \in {p \in prev : Len(p) = n - 1}, c \in S}

Texts == SeqsUpTo(Alphabet, MaxLen)

Min2(a, b) == IF a <= b THEN a ELSE b

(***************************************************************************)
(* str primitives used by the chunker.                                     *)
(***************************************************************************)
len_utf8(ch) == IF ch \in {"U", "§"} THEN 2 ELSE 1

is_whitespace(ch) == ch = " "

is_terminal(ch) == ch \in {".", "?", "!"}

\* str::len: the length in bytes
RECURSIVE len(_)
len(s) == IF s = <<>> THEN 0 ELSE len_utf8(Head(s)) + len(Tail(s))

RECURSIVE trim_start(_)
trim_start(s) ==
    IF s # <<>> /\ is_whitespace(Head(s)) THEN trim_start(Tail(s)) ELSE s

RECURSIVE trim_end(_)
trim_end(s) ==
    IF s # <<>> /\ is_whitespace(s[Len(s)])
    THEN trim_end(SubSeq(s, 1, Len(s) - 1))
    ELSE s

trim(s) == trim_end(trim_start(s))

\* s[a..b] for byte offsets a, b lying on character boundaries
RECURSIVE byte_slice_from(_, _, _, _)
byte_slice_from(s, pos, a, b) ==
    IF s = <<>> \/ pos >= b THEN <<>>
    ELSE IF pos >= a
         THEN <<Head(s)>> \o byte_slice_from(Tail(s), pos + len_utf8(Head(s)), a, b)
         ELSE byte_slice_from(Tail(s), pos + len_utf8(Head(s)), a, b)

byte_slice(s, a, b) == byte_slice_from(s, 0, a, b)

\* text.split_whitespace() paired with each word's byte offset in text
\* (w.as_ptr() - text.as_ptr()): i is the next character, pos its byte offset,
\* cur the word being read and cur_off its offset.
RECURSIVE word_scan(_, _, _, _, _, _)
word_scan(s, i, pos, cur, cur_off, acc) ==
    IF i > Len(s)
    THEN IF cur = <<>> THEN acc ELSE Append(acc, [off |-> cur_off, w |-> cur])
    ELSE IF is_whitespace(s[i])
         THEN word_scan(s, i + 1, pos + len_utf8(s[i]), <<>>, 0,
                        IF cur = <<>> THEN acc
                        ELSE Append(acc, [off |-> cur_off, w |-> cur]))
         ELSE word_scan(s, i + 1, pos + len_utf8(s[i]), Append(cur, s[i]),
                        IF cur = <<>> THEN pos ELSE cur_off, acc)

split_whitespace(s) == word_scan(s, 1, 0, <<>>, 0, <<>>)

approx_token_count(s) == Len(split_whitespace(s))

\* a.join(" ") over the texts of a list of spans
RECURSIVE join_texts(_)
join_texts(spans) ==
    IF spans = <<>> THEN <<>>
    ELSE IF Len(spans) = 1 THEN spans[1].text
    ELSE spans[1].text \o <<" ">> \o join_texts(Tail(spans))

saturating_sub(a, b) == IF a >= b THEN a - b ELSE 0

RECURSIVE reverse(_)
reverse(s) == IF s = <<>> THEN <<>> ELSE Append(reverse(Tail(s)), Head(s))

\* Option<usize>::None for current_start
None == -1

(***************************************************************************)
(* split_sentences: one pass over text.char_indices(); i is the next       *)
(* character and byte_pos its byte offset.                                 *)
(***************************************************************************)
RECURSIVE sentence_scan(_, _, _, _, _, _)
sentence_scan(t, i, byte_pos, current, current_start, acc) ==
    IF i > Len(t)
    THEN LET trimmed == trim(current)
         IN  IF trimmed # <<>>
             THEN Append(acc, [text |-> trimmed,
                               byte_start |-> IF current_start = None THEN 0
                                              ELSE current_start,
                               byte_end |-> len(t)])
             ELSE acc
    ELSE LET ch == t[i]
             started == IF current_start = None /\ ~is_whitespace(ch)
                        THEN byte_pos ELSE current_start
             pushed == Append(current, ch)
         IN  IF is_terminal(ch) /\ len(pushed) > 1
             THEN LET trimmed == trim(pushed)
                  IN  sentence_scan(t, i + 1, byte_pos + len_utf8(ch), <<>>, None,
                          IF trimmed # <<>>
                          THEN Append(acc, [text |-> trimmed,
                                            byte_start |-> IF started = None
                                                           THEN byte_pos ELSE started,
                                            byte_end |-> byte_pos + len_utf8(ch)])
                          ELSE acc)
             ELSE sentence_scan(t, i + 1, byte_pos + len_utf8(ch), pushed, started, acc)

split_sentences(t) == sentence_scan(t, 1, 0, <<>>, None, <<>>)

(***************************************************************************)
(* spans_to_chunk                                                          *)
(***************************************************************************)
spans_to_chunk(spans) ==
    [text |-> join_texts(spans),
     char_start |-> IF spans = <<>> THEN 0 ELSE spans[1].byte_start,
     char_end |-> IF spans = <<>> THEN 0 ELSE spans[Len(spans)].byte_end]

(***************************************************************************)
(* The overlap loop of chunk_text: walk current_chunk from its end (k),    *)
(* taking sentences while they fit in overlap; the result is reversed.     *)
(***************************************************************************)
\* overlap_scan testing the budget before the sentence is counted
RECURSIVE overlap_scan_CheckBeforeAdd(_, _, _, _, _)
overlap_scan_CheckBeforeAdd(cur, k, overlap, overlap_chunk, overlap_len) ==
    IF k = 0
    THEN [chunk |-> reverse(overlap_chunk), len |-> overlap_len]
    ELSE LET s_len == approx_token_count(cur[k].text)
         IN  IF overlap_len > overlap
             THEN [chunk |-> reverse(overlap_chunk), len |-> overlap_len]
             ELSE overlap_scan_CheckBeforeAdd(cur, k - 1, overlap,
                               Append(overlap_chunk, cur[k]), overlap_len + s_len)

RECURSIVE overlap_scan(_, _, _, _, _)
overlap_scan(cur, k, overlap, overlap_chunk, overlap_len) ==
    IF k = 0
    THEN [chunk |-> reverse(overlap_chunk), len |-> overlap_len]
    ELSE LET s_len == approx_token_count(cur[k].text)
         IN  IF overlap_len + s_len > overlap
             THEN [chunk |-> reverse(overlap_chunk), len |-> overlap_len]
             ELSE overlap_scan(cur, k - 1, overlap,
                               Append(overlap_chunk, cur[k]), overlap_len + s_len)

build_overlap(cur, overlap) == overlap_scan(cur, Len(cur), overlap, <<>>, 0)

(***************************************************************************)
(* One window of split_by_words: words[start .. end) of the sentence.      *)
(***************************************************************************)
window_end(ws, start_w, max) == Min2(start_w + max, Len(ws))

\* window_span ending one byte after the last word (the separator included)
window_span_PastLastWord(sent_text, ws, start_w, end_w, base_offset) ==
    LET chunk_start == ws[start_w + 1].off
        last_word == ws[end_w]
        chunk_end == last_word.off + len(last_word.w) + 1
    IN  [text |-> byte_slice(sent_text, chunk_start, chunk_end),
         char_start |-> base_offset + chunk_start,
         char_end |-> base_offset + chunk_end]

\* window_span with offsets relative to the sentence, base_offset left out
window_span_NoBaseOffset(sent_text, ws, start_w, end_w, base_offset) ==
    LET chunk_start == ws[start_w + 1].off
        last_word == ws[end_w]
        chunk_end == last_word.off + len(last_word.w)
    IN  [text |-> byte_slice(sent_text, chunk_start, chunk_end),
         char_start |-> chunk_start,
         char_end |-> chunk_end]

window_span(sent_text, ws, start_w, end_w, base_offset) ==
    LET chunk_start == ws[start_w + 1].off
        last_word == ws[end_w]
        chunk_end == last_word.off + len(last_word.w)
    IN  [text |-> byte_slice(sent_text, chunk_start, chunk_end),
         char_start |-> base_offset + chunk_start,
         char_end |-> base_offset + chunk_end]

(***************************************************************************)
(* chunk_text as a function of its arguments, for callers: the same loop   *)
(* as the actions below, run to its end (split_by_words returns only when  *)
(* overlap < max).                                                         *)
(***************************************************************************)
RECURSIVE split_by_words_from(_, _, _, _, _, _, _)
split_by_words_from(sent_text, ws, start_w, base_offset, max, overlap, acc) ==
    LET end == window_end(ws, start_w, max)
        out == Append(acc, window_span(sent_text, ws, start_w, end, base_offset))
    IN  IF end >= Len(ws) THEN out
        ELSE split_by_words_from(sent_text, ws, saturating_sub(end, overlap),
                                 base_offset, max, overlap, out)

split_by_words(sent_text, base_offset, max, overlap) ==
    IF split_whitespace(sent_text) = <<>> THEN <<>>
    ELSE split_by_words_from(sent_text, split_whitespace(sent_text), 0,
                             base_offset, max, overlap, <<>>)

RECURSIVE chunk_loop(_, _, _, _, _, _, _)
chunk_loop(ss, i, max, overlap, out, cur, cur_len) ==
    IF i > Len(ss)
    THEN IF cur # <<>> THEN Append(out, spans_to_chunk(cur)) ELSE out
    ELSE LET sentence == ss[i]
             sent_len == approx_token_count(sentence.text)
             overflow == cur_len + sent_len > max /\ cur # <<>>
             seed == build_overlap(cur, overlap)
         IN  IF sent_len > max
             THEN chunk_loop(ss, i + 1, max, overlap,
                             (IF cur # <<>> THEN Append(out, spans_to_chunk(cur)) ELSE out)
                                 \o split_by_words(sentence.text, sentence.byte_start,
                                                   max, overlap),
                             <<>>, 0)
             ELSE chunk_loop(ss, i + 1, max, overlap,
                             IF overflow THEN Append(out, spans_to_chunk(cur)) ELSE out,
                             Append(IF overflow THEN seed.chunk ELSE cur, sentence),
                             (IF overflow THEN seed.len ELSE cur_len) + sent_len)

chunk_text(t, max, overlap) ==
    IF approx_token_count(t) <= max
    THEN <<[text |-> t, char_start |-> 0, char_end |-> len(t)]>>
    ELSE chunk_loop(split_sentences(t), 1, max, overlap, <<>>, <<>>, 0)

\* The chunks vector can hold this many spans before allocation fails.
MemoryLimit == MaxLen + 2

(***************************************************************************)
(* graph/edges.rs: extract_section_refs and its three regular expressions. *)
(* The regex crate matches leftmost-first and iterates over successive     *)
(* non-overlapping matches.                                                *)
(***************************************************************************)
is_digit(ch) == ch \in {"0", "1", "2", "3", "4", "5", "6", "7", "8", "9"}

\* the characters of the model in code point order (the order of str::cmp)
CharOrder ==
    <<" ", "!", "\"", "'", ",", "-", ".", "/",
      "0", "1", "2", "3", "4", "5", "6", "7", "8", "9", "=", "?",
      "a", "c", "d", "e", "f", "h", "n", "o", "r", "v", "§", "U">>

char_rank(ch) == CHOOSE k \in 1..Len(CharOrder) : CharOrder[k] = ch

\* a < b for two strings (String::cmp: lexicographic by bytes)
RECURSIVE str_lt(_, _)
str_lt(a, b) ==
    IF b = <<>> THEN FALSE
    ELSE IF a = <<>> THEN TRUE
    ELSE IF Head(a) = Head(b) THEN str_lt(Tail(a), Tail(b))
    ELSE char_rank(Head(a)) < char_rank(Head(b))

\* s[i..] starts with lit
starts_with_at(s, i, lit) ==
    /\ i + Len(lit) - 1 <= Len(s)
    /\ SubSeq(s, i, i + Len(lit) - 1) = lit

\* \s* from i: the index after the whitespace
RECURSIVE whitespace_end(_, _)
whitespace_end(s, i) ==
    IF i <= Len(s) /\ is_whitespace(s[i]) THEN whitespace_end(s, i + 1) ELSE i

\* \d* from i: the index after the digits
RECURSIVE digits_end(_, _)
digits_end(s, i) ==
    IF i <= Len(s) /\ is_digit(s[i]) THEN digits_end(s, i + 1) ELSE i

\* a pattern without the dotted groups: \d+-\d+
dotted_end_NoGroup(s, i) == i

\* (?:\.\d+)* from i: the index after the last group
RECURSIVE dotted_end(_, _)
dotted_end(s, i) ==
    IF i + 1 <= Len(s) /\ s[i] = "." /\ is_digit(s[i + 1])
    THEN dotted_end(s, digits_end(s, i + 1))
    ELSE i

\* \d+(?:\.\d+)*-\d+(?:\.\d+)* anchored at i: the index after the match,
\* 0 when there is none
section_number_end(s, i) ==
    IF ~(i <= Len(s) /\ is_digit(s[i])) THEN 0
    ELSE LET dash == dotted_end(s, digits_end(s, i))
         IN  IF dash + 1 <= Len(s) /\ s[dash] = "-" /\ is_digit(s[dash + 1])
             THEN dotted_end(s, digits_end(s, dash + 1))
             ELSE 0

\* section_re.find_iter(list)  (edges.rs 239-242)
RECURSIVE find_section_numbers(_, _, _)
find_section_numbers(s, i, acc) ==
    IF i > Len(s) THEN acc
    ELSE LET e == section_number_end(s, i)
         IN  IF e # 0
             THEN find_section_numbers(s, e, Append(acc, SubSeq(s, i, e - 1)))
             ELSE find_section_numbers(s, i + 1, acc)

HrefLit == <<"h", "r", "e", "f">>
VacodeLit == <<"/", "v", "a", "c", "o", "d", "e", "/">>

\* [^/'"]
is_href_key_char(ch) == ch \notin {"/", "'", "\""}

\* a key class that stops at quotes only: [^'"]+
RECURSIVE href_key_end_ThroughSlash(_, _)
href_key_end_ThroughSlash(s, i) ==
    IF i <= Len(s) /\ s[i] \notin {"'", "\""}
    THEN href_key_end_ThroughSlash(s, i + 1) ELSE i

\* [^/'"]+ from i, greedy: the index after the run
RECURSIVE href_key_end(_, _)
href_key_end(s, i) ==
    IF i <= Len(s) /\ is_href_key_char(s[i]) THEN href_key_end(s, i + 1) ELSE i

\* .*?/vacode/([^/'"]+) from j: the first j' >= j at which /vacode/ starts
\* and is followed by a key character, no newline being crossed; 0 if none
RECURSIVE vacode_at(_, _)
vacode_at(s, j) ==
    IF j > Len(s) THEN 0
    ELSE IF /\ starts_with_at(s, j, VacodeLit)
            /\ j + Len(VacodeLit) <= Len(s)
            /\ is_href_key_char(s[j + Len(VacodeLit)])
         THEN j
         ELSE IF s[j] = "\n" THEN 0 ELSE vacode_at(s, j + 1)

\* re_href.captures_iter(text): group 1 of every match
RECURSIVE href_captures(_, _, _)
href_captures(s, i, acc) ==
    IF i > Len(s) THEN acc
    ELSE LET j == IF starts_with_at(s, i, HrefLit)
                  THEN vacode_at(s, i + Len(HrefLit)) ELSE 0
             k == j + Len(VacodeLit)
         IN  IF j # 0
             THEN href_captures(s, href_key_end(s, k),
                                Append(acc, SubSeq(s, k, href_key_end(s, k) - 1)))
             ELSE href_captures(s, i + 1, acc)

\* re_section.captures_iter(text): group 1 of every match
RECURSIVE section_captures(_, _, _)
section_captures(s, i, acc) ==
    IF i > Len(s) THEN acc
    ELSE LET k == whitespace_end(s, i + 1)
             e == IF s[i] = "§" THEN section_number_end(s, k) ELSE 0
         IN  IF e # 0
             THEN section_captures(s, e, Append(acc, SubSeq(s, k, e - 1)))
             ELSE section_captures(s, i + 1, acc)

\* [\d.,\s\-and]
is_plural_list_char(ch) ==
    is_digit(ch) \/ is_whitespace(ch) \/ ch \in {".", ",", "-", "a", "n", "d"}

RECURSIVE plural_list_end(_, _)
plural_list_end(s, i) ==
    IF i <= Len(s) /\ is_plural_list_char(s[i]) THEN plural_list_end(s, i + 1) ELSE i

\* re_sections_plural.captures_iter(text): group 1 of every match.  \s* takes
\* all the whitespace; when no list character follows it gives one back.
RECURSIVE plural_captures(_, _, _)
plural_captures(s, i, acc) ==
    IF i > Len(s) THEN acc
    ELSE IF starts_with_at(s, i, <<"§", "§">>)
         THEN LET k == whitespace_end(s, i + 2)
                  e == plural_list_end(s, k)
              IN  IF e > k
                  THEN plural_captures(s, e, Append(acc, SubSeq(s, k, e - 1)))
                  ELSE IF k > i + 2
                       THEN plural_captures(s, k, Append(acc, SubSeq(s, k - 1, k - 1)))
                       ELSE plural_captures(s, i + 1, acc)
         ELSE plural_captures(s, i + 1, acc)

\* the section numbers of every captured list, in order
RECURSIVE plural_refs(_)
plural_refs(lists) ==
    IF lists = <<>> THEN <<>>
    ELSE find_section_numbers(Head(lists), 1, <<>>) \o plural_refs(Tail(lists))

\* Vec<String>::sort
RECURSIVE sort_insert(_, _)
sort_insert(sorted, x) ==
    IF sorted = <<>> THEN <<x>>
    ELSE IF str_lt(x, Head(sorted)) THEN <<x>> \o sorted
    ELSE <<Head(sorted)>> \o sort_insert(Tail(sorted), x)

RECURSIVE sort(_)
sort(v) == IF v = <<>> THEN <<>> ELSE sort_insert(sort(SubSeq(v, 1, Len(v) - 1)), v[Len(v)])

\* a dedup that keeps every element
dedup_Keep(v) == v

\* Vec::dedup: consecutive equal elements collapse
RECURSIVE dedup(_)
dedup(v) ==
    IF Len(v) <= 1 THEN v
    ELSE IF v[1] = v[2] THEN dedup(Tail(v))
    ELSE <<v[1]>> \o dedup(Tail(v))

\* the refs vector before refs.sort() (edges.rs 218-244)
collected_refs(t) ==
    href_captures(t, 1, <<>>) \o section_captures(t, 1, <<>>)
        \o plural_refs(plural_captures(t, 1, <<>>))

extract_section_refs(t) == dedup(sort(collected_refs(t)))

(***************************************************************************)
(* graph/nodes.rs: build_nodes.                                            *)
(***************************************************************************)
\* build_nodes calls chunk_text(clean_text, 500, 50); the model keeps the
\* call and scales the policy to texts of a few words.
ChunkMaxTokens == 3
ChunkOverlapTokens == 1

\* Bounds of the graph model: records over all six tables, pipeline runs.
MaxRows == 2
NumRuns == 2

\* Cleaned texts: one that fits a chunk and one that is split.
ShortText == <<"a", ".">>
LongText == <<"a", " ", "a", ".", " ", "a", " ", "a", ".", " ", "a">>
GraphTexts == {ShortText, LongText}

\* The rows of the cleaned DataFrames (the columns build_nodes reads)
CodeRows ==
    [section : {"", "1", "1:1"}, title_num : {"", "1", "2"}, title_name : {"T"},
     chapter_num : {"", "1"}, chapter_name : {"C"}, clean_text : GraphTexts]
ConstitutionRows ==
    [article_id : {1, 2}, article_name : {"A"}, section_count : {1},
     clean_text : GraphTexts]
AuthorityRows == [short_name : {"", "S"}, clean_text : GraphTexts]
CourtRows == [id : {1, 2}, clean_text : {ShortText}]
PopularNameRows == [name : {"", "P"}, clean_text : GraphTexts]
DocumentRows == [filename : {"", "f"}, clean_text : GraphTexts]

Tables == {"virginia_code", "constitution", "authorities", "courts",
           "popular_names", "documents"}

RowsOf(table) ==
    CASE table = "virginia_code" -> CodeRows
      [] table = "constitution" -> ConstitutionRows
      [] table = "authorities" -> AuthorityRows
      [] table = "courts" -> CourtRows
      [] table = "popular_names" -> PopularNameRows
      [] table = "documents" -> DocumentRows

TaggedRows == UNION {{[table |-> t, row |-> r] : r \in RowsOf(t)} : t \in Tables}

\* the rows of one table, in input order
RECURSIVE TableOf(_, _)
TableOf(recs, t) ==
    IF recs = <<>> THEN <<>>
    ELSE IF Head(recs).table = t
         THEN <<Head(recs).row>> \o TableOf(Tail(recs), t)
         ELSE TableOf(Tail(recs), t)

CleanedOf(recs) == [t \in Tables |-> TableOf(recs, t)]

\* the orders in which a HashMap holding the keys S can be iterated
Orders(S) ==
    {o \in SeqsUpTo(S, Cardinality(S)) :
        Len(o) = Cardinality(S) /\ {o[i] : i \in 1..Len(o)} = S}

EmptyMap == [k \in {} |-> <<>>]

i64_to_string(n) == ToString(n)

\* lookup.entry(key).or_default() with the id put in front of the list
lookup_push_Front(lookup, key, id) ==
    IF key \in DOMAIN lookup
    THEN [lookup EXCEPT ![key] = <<id>> \o @]
    ELSE lookup @@ (key :> <<id>>)

\* lookup.entry(key).or_default().push(id)
lookup_push(lookup, key, id) ==
    IF key \in DOMAIN lookup
    THEN [lookup EXCEPT ![key] = Append(@, id)]
    ELSE lookup @@ (key :> <<id>>)

\* One node: the Node is built with id next_id, registered in lookup and
\* texts, pushed, and next_id incremented; meta holds the ChunkMeta pushed
\* with it, if any.
push_node(b, source, source_id, chunk_idx, node_type, synthetic, node_text, meta) ==
    [nodes |-> Append(b.nodes,
                      [id |-> b.next_id, source |-> source, source_id |-> source_id,
                       chunk_idx |-> chunk_idx, node_type |-> node_type,
                       synthetic |-> synthetic]),
     lookup |-> lookup_push(b.lookup, <<source, source_id>>, b.next_id),
     texts |-> (b.next_id :> node_text) @@ b.texts,
     chunk_meta |-> b.chunk_meta \o meta,
     next_id |-> b.next_id + 1]

\* for (idx, chunk) in chunks.iter().enumerate(): one node per chunk
RECURSIVE push_chunks(_, _, _, _, _, _, _)
push_chunks(b, source, source_id, node_type, cs, idx, always_meta) ==
    IF idx >= Len(cs) THEN b
    ELSE LET chunk == cs[idx + 1]
             meta == IF always_meta \/ Len(cs) > 1
                     THEN <<[node_id |-> b.next_id, char_start |-> chunk.char_start,
                             char_end |-> chunk.char_end]>>
                     ELSE <<>>
         IN  push_chunks(push_node(b, source, source_id, idx, node_type, FALSE,
                                   chunk.text, meta),
                         source, source_id, node_type, cs, idx + 1, always_meta)

\* The loop over the rows of a content table: keyed[i] holds the structural
\* key and the clean_text of row i; rows with an empty key are skipped.
RECURSIVE push_records(_, _, _, _, _, _)
push_records(b, source, node_type, keyed, i, always_meta) ==
    IF i > Len(keyed) THEN b
    ELSE IF keyed[i].key = ""
         THEN push_records(b, source, node_type, keyed, i + 1, always_meta)
         ELSE push_records(
                  push_chunks(b, source, keyed[i].key, node_type,
                              chunk_text(keyed[i].clean_text, ChunkMaxTokens,
                                         ChunkOverlapTokens),
                              0, always_meta),
                  source, node_type, keyed, i + 1, always_meta)

\* The loop over a map of synthetic ancestors, in iteration order: entries[i]
\* holds the source_id and the name of the i-th entry visited.
RECURSIVE push_synthetic(_, _, _, _, _)
push_synthetic(b, source, node_type, entries, i) ==
    IF i > Len(entries) THEN b
    ELSE push_synthetic(push_node(b, source, entries[i].source_id, 0, node_type,
                                  TRUE, entries[i].name, <<>>),
                        source, node_type, entries, i + 1)

\* titles_seen: title_num -> title_name, the first name seen kept
RECURSIVE titles_seen_from(_, _, _)
titles_seen_from(rows, i, seen) ==
    IF i > Len(rows) THEN seen
    ELSE titles_seen_from(rows, i + 1,
             IF rows[i].title_num # "" /\ rows[i].title_num \notin DOMAIN seen
             THEN seen @@ (rows[i].title_num :> rows[i].title_name)
             ELSE seen)

titles_seen(rows) == titles_seen_from(rows, 1, EmptyMap)

\* format!("{title_num}:{chapter_num}")
ch_key(row) == row.title_num \o ":" \o row.chapter_num

\* chapters_seen: "title:chapter" -> chapter_name
RECURSIVE chapters_seen_from(_, _, _)
chapters_seen_from(rows, i, seen) ==
    IF i > Len(rows) THEN seen
    ELSE chapters_seen_from(rows, i + 1,
             IF rows[i].chapter_num # "" /\ ch_key(rows[i]) \notin DOMAIN seen
             THEN seen @@ (ch_key(rows[i]) :> rows[i].chapter_name)
             ELSE seen)

chapters_seen(rows) == chapters_seen_from(rows, 1, EmptyMap)

\* articles_seen: article_id -> article_name (entry().or_insert())
RECURSIVE articles_seen_from(_, _, _)
articles_seen_from(rows, i, seen) ==
    IF i > Len(rows) THEN seen
    ELSE articles_seen_from(rows, i + 1,
             IF rows[i].article_id \notin DOMAIN seen
             THEN seen @@ (rows[i].article_id :> rows[i].article_name)
             ELSE seen)

articles_seen(rows) == articles_seen_from(rows, 1, EmptyMap)

\* format!("article:{article_id}") and format!("{article_id}:{section_count}")
article_key(article_id) == "article:" \o i64_to_string(article_id)

constitution_section_key(row) ==
    i64_to_string(row.article_id) \o ":" \o i64_to_string(row.section_count)

\* the courts loop: one node per row, never chunked
RECURSIVE push_courts(_, _, _)
push_courts(b, rows, i) ==
    IF i > Len(rows) THEN b
    ELSE push_courts(push_node(b, "courts", i64_to_string(rows[i].id), 0, "court",
                               FALSE, rows[i].clean_text, <<>>),
                     rows, i + 1)

\* build_nodes; title_order, chapter_order and article_order are the orders
\* in which the three HashMaps titles_seen, chapters_seen and articles_seen
\* are iterated.
build_nodes(c, title_order, chapter_order, article_order) ==
    LET code == c["virginia_code"]
        constitution == c["constitution"]
        b0 == [nodes |-> <<>>, lookup |-> EmptyMap, texts |-> EmptyMap,
               chunk_meta |-> <<>>, next_id |-> 1]
        b1 == push_synthetic(b0, "virginia_code", "title",
                  [i \in 1..Len(title_order) |->
                      [source_id |-> title_order[i],
                       name |-> titles_seen(code)[title_order[i]]]], 1)
        b2 == push_synthetic(b1, "virginia_code", "chapter",
                  [i \in 1..Len(chapter_order) |->
                      [source_id |-> chapter_order[i],
                       name |-> chapters_seen(code)[chapter_order[i]]]], 1)
        b3 == push_records(b2, "virginia_code", "section",
                  [i \in 1..Len(code) |->
                      [key |-> code[i].section, clean_text |-> code[i].clean_text]],
                  1, FALSE)
        b4 == push_synthetic(b3, "constitution", "article",
                  [i \in 1..Len(article_order) |->
                      [source_id |-> article_key(article_order[i]),
                       name |-> articles_seen(constitution)[article_order[i]]]], 1)
        b5 == push_records(b4, "constitution", "constitution_section",
                  [i \in 1..Len(constitution) |->
                      [key |-> constitution_section_key(constitution[i]),
                       clean_text |-> constitution[i].clean_text]],
                  1, FALSE)
        b6 == push_records(b5, "authorities", "authority",
                  [i \in 1..Len(c["authorities"]) |->
                      [key |-> c["authorities"][i].short_name,
                       clean_text |-> c["authorities"][i].clean_text]],
                  1, FALSE)
        b7 == push_courts(b6, c["courts"], 1)
        b8 == push_records(b7, "popular_names", "popular_name",
                  [i \in 1..Len(c["popular_names"]) |->
                      [key |-> c["popular_names"][i].name,
                       clean_text |-> c["popular_names"][i].clean_text]],
                  1, FALSE)
        b9 == push_records(b8, "documents", "manual_chunk",
                  [i \in 1..Len(c["documents"]) |->
                      [key |-> c["documents"][i].filename,
                       clean_text |-> c["documents"][i].clean_text]],
                  1, TRUE)
    IN  [nodes |-> b9.nodes, lookup |-> b9.lookup, texts |-> b9.texts,
         chunk_meta |-> b9.chunk_meta]


(***************************************************************************)
(* State of one call chunk_text(text, max_tokens, overlap_tokens).         *)
(***************************************************************************)
(***************************************************************************)
(* graph/edges.rs: build_edges.                                            *)
(***************************************************************************)
\* the String holding the characters s
RECURSIVE to_string(_)
to_string(s) == IF s = <<>> THEN "" ELSE Head(s) \o to_string(Tail(s))

\* Edge { from_id, to_id, rel_type, weight: None }
Edge(from_id, to_id, rel_type) ==
    [from_id |-> from_id, to_id |-> to_id, rel_type |-> rel_type]

\* for &f in from_ids { for &t in to_ids { edges.push(Edge { f, t, .. }) } }
RECURSIVE all_pairs(_, _, _)
all_pairs(from_ids, to_ids, rel_type) ==
    IF from_ids = <<>> THEN <<>>
    ELSE [i \in 1..Len(to_ids) |-> Edge(Head(from_ids), to_ids[i], rel_type)]
             \o all_pairs(Tail(from_ids), to_ids, rel_type)

\* a loop that links the first child node only
contains_edges_FirstChildOnly(lookup, parent_key, child_key) ==
    IF parent_key \in DOMAIN lookup /\ child_key \in DOMAIN lookup
    THEN all_pairs(lookup[parent_key], <<lookup[child_key][1]>>, "contains")
    ELSE <<>>

\* if let (Some(parent_ids), Some(child_ids)) = (lookup.get(..), lookup.get(..))
contains_edges(lookup, parent_key, child_key) ==
    IF parent_key \in DOMAIN lookup /\ child_key \in DOMAIN lookup
    THEN all_pairs(lookup[parent_key], lookup[child_key], "contains")
    ELSE <<>>

\* a loop that links the title to the section directly
RECURSIVE code_hierarchy_edges_TitleToSection(_, _)
code_hierarchy_edges_TitleToSection(lookup, rows) ==
    IF rows = <<>> THEN <<>>
    ELSE contains_edges(lookup, <<"virginia_code", Head(rows).title_num>>,
                        <<"virginia_code", Head(rows).section>>)
             \o code_hierarchy_edges_TitleToSection(lookup, Tail(rows))

\* for row in code_rows: title contains chapter, chapter contains section
RECURSIVE code_hierarchy_edges(_, _)
code_hierarchy_edges(lookup, rows) ==
    IF rows = <<>> THEN <<>>
    ELSE LET row == Head(rows)
             title_key == <<"virginia_code", row.title_num>>
             chapter_key == <<"virginia_code", ch_key(row)>>
             section_key == <<"virginia_code", row.section>>
         IN  contains_edges(lookup, title_key, chapter_key)
                 \o contains_edges(lookup, chapter_key, section_key)
                 \o code_hierarchy_edges(lookup, Tail(rows))

\* for row in constitution_rows: article contains section
RECURSIVE constitution_hierarchy_edges(_, _)
constitution_hierarchy_edges(lookup, rows) ==
    IF rows = <<>> THEN <<>>
    ELSE contains_edges(lookup,
                        <<"constitution", article_key(Head(rows).article_id)>>,
                        <<"constitution", constitution_section_key(Head(rows))>>)
             \o constitution_hierarchy_edges(lookup, Tail(rows))

build_hierarchy_edges(lookup, code, constitution) ==
    code_hierarchy_edges(lookup, code) \o constitution_hierarchy_edges(lookup, constitution)

\* a target loop without the self-citation test
RECURSIVE cite_targets_WithSelf(_, _)
cite_targets_WithSelf(id, target_ids) ==
    IF target_ids = <<>> THEN <<>>
    ELSE <<Edge(id, Head(target_ids), "cites")>>
             \o cite_targets_WithSelf(id, Tail(target_ids))

\* for &tid in target_ids { if tid != node.id { edges.push(..) } }
RECURSIVE cite_targets(_, _)
cite_targets(id, target_ids) ==
    IF target_ids = <<>> THEN <<>>
    ELSE (IF Head(target_ids) # id
          THEN <<Edge(id, Head(target_ids), "cites")>> ELSE <<>>)
             \o cite_targets(id, Tail(target_ids))

\* a loop that links an unresolved citation to node 0
RECURSIVE cite_refs_Unresolved(_, _, _)
cite_refs_Unresolved(id, section_refs, lookup) ==
    IF section_refs = <<>> THEN <<>>
    ELSE LET target_key == <<"virginia_code", to_string(Head(section_refs))>>
         IN  (IF target_key \in DOMAIN lookup
              THEN cite_targets(id, lookup[target_key])
              ELSE <<Edge(id, 0, "cites")>>)
                 \o cite_refs_Unresolved(id, Tail(section_refs), lookup)

\* for ref_section in &refs: the targets registered under the key
RECURSIVE cite_refs(_, _, _)
cite_refs(id, section_refs, lookup) ==
    IF section_refs = <<>> THEN <<>>
    ELSE LET target_key == <<"virginia_code", to_string(Head(section_refs))>>
         IN  (IF target_key \in DOMAIN lookup
              THEN cite_targets(id, lookup[target_key]) ELSE <<>>)
                 \o cite_refs(id, Tail(section_refs), lookup)

\* a type test that lets courts and document chunks cite as well
is_citing_type_AnyContent(node_type) ==
    node_type \in {"section", "constitution_section", "authority", "popular_name",
                   "court", "manual_chunk"}

\* the node types whose text is scanned (edges.rs 131-137)
is_citing_type(node_type) ==
    node_type \in {"section", "constitution_section", "authority", "popular_name"}

\* for node in nodes
RECURSIVE build_citation_edges(_, _, _)
build_citation_edges(nodes, lookup, texts) ==
    IF nodes = <<>> THEN <<>>
    ELSE LET node == Head(nodes)
         IN  (IF is_citing_type(node.node_type) /\ node.id \in DOMAIN texts
              THEN cite_refs(node.id, extract_section_refs(texts[node.id]), lookup)
              ELSE <<>>)
                 \o build_citation_edges(Tail(nodes), lookup, texts)

\* a source choice that links every chunk of the document
reference_sources_EveryChunk(doc_node_ids) == doc_node_ids

\* doc_node_ids.first()
reference_sources(doc_node_ids) ==
    IF doc_node_ids = <<>> THEN <<>> ELSE <<doc_node_ids[1]>>

\* for ref_section in &refs, for one document
RECURSIVE reference_refs(_, _, _)
reference_refs(doc_node_ids, section_refs, lookup) ==
    IF section_refs = <<>> THEN <<>>
    ELSE LET target_key == <<"virginia_code", to_string(Head(section_refs))>>
         IN  (IF target_key \in DOMAIN lookup
              THEN all_pairs(reference_sources(doc_node_ids), lookup[target_key],
                             "references")
              ELSE <<>>)
                 \o reference_refs(doc_node_ids, Tail(section_refs), lookup)

\* for row in document_rows (the loop over manual_chunk nodes that follows
\* pushes nothing)
RECURSIVE build_document_reference_edges(_, _)
build_document_reference_edges(lookup, rows) ==
    IF rows = <<>> THEN <<>>
    ELSE LET doc_key == <<"documents", Head(rows).filename>>
         IN  (IF doc_key \in DOMAIN lookup
              THEN reference_refs(lookup[doc_key],
                                  extract_section_refs(Head(rows).content), lookup)
              ELSE <<>>)
                 \o build_document_reference_edges(lookup, Tail(rows))

\* the relation types in the order of String::cmp
RelTypes == <<"cites", "contains", "references">>

rel_type_rank(rel_type) == CHOOSE k \in 1..Len(RelTypes) : RelTypes[k] = rel_type

\* the comparison of edges.sort_by: from_id, then to_id, then rel_type
edge_lt(a, b) ==
    \/ a.from_id < b.from_id
    \/ a.from_id = b.from_id /\ a.to_id < b.to_id
    \/ /\ a.from_id = b.from_id
       /\ a.to_id = b.to_id
       /\ rel_type_rank(a.rel_type) < rel_type_rank(b.rel_type)

RECURSIVE sort_edges_insert(_, _)
sort_edges_insert(sorted, e) ==
    IF sorted = <<>> THEN <<e>>
    ELSE IF edge_lt(e, Head(sorted)) THEN <<e>> \o sorted
    ELSE <<Head(sorted)>> \o sort_edges_insert(Tail(sorted), e)

\* edges.sort_by(..)
RECURSIVE sort_edges(_)
sort_edges(v) ==
    IF v = <<>> THEN <<>>
    ELSE sort_edges_insert(sort_edges(SubSeq(v, 1, Len(v) - 1)), v[Len(v)])

\* a final step that keeps every edge pushed
dedup_edges_KeepAll(v) == v

\* edges.dedup_by(..): of consecutive edges equal in from_id, to_id and
\* rel_type the first is kept
RECURSIVE dedup_edges(_)
dedup_edges(v) ==
    IF Len(v) <= 1 THEN v
    ELSE IF /\ v[1].from_id = v[2].from_id
            /\ v[1].to_id = v[2].to_id
            /\ v[1].rel_type = v[2].rel_type
         THEN dedup_edges(<<v[1]>> \o SubSeq(v, 3, Len(v)))
         ELSE <<v[1]>> \o dedup_edges(Tail(v))

\* the edges pushed by the three passes, before the sort (edges.rs 24-33)
pushed_edges(nodes, lookup, code, constitution, documents, texts) ==
    build_hierarchy_edges(lookup, code, constitution)
        \o build_citation_edges(nodes, lookup, texts)
        \o build_document_reference_edges(lookup, documents)

build_edges(nodes, lookup, code, constitution, documents, texts) ==
    dedup_edges(sort_edges(pushed_edges(nodes, lookup, code, constitution,
                                        documents, texts)))

VARIABLES
    text, max_tokens, overlap_tokens,  \* the arguments
    pc,                                \* position in chunk_text
    sentences, idx,                    \* the sentence list and the loop index
    chunks,                            \* the result vector
    current_chunk, current_len,        \* the pending chunk
    words, start,                      \* locals of split_by_words
    cleaned,                           \* the CleanedData given to the pipeline
    results,                           \* the NodeBuildResult of each run so far
    code_rows, constitution_rows,      \* the raw rows main.rs read
    document_rows,
    edges,                             \* the Vec<Edge> of each build_edges call
    ref_text,                          \* the argument of extract_section_refs
    refs,                              \* its return value, once it returned
    raw, etl_pc,                       \* the tables run_etl reads; whether it ran
    embed_texts, batch_size,           \* the argument and the field of embed_all
    current_batch_size, offset,        \* its locals
    all_embeddings,
    embed_pc, last_result,             \* its position; the model's last answer
    node_ids, embeddings,              \* the arguments of write_embeddings
    embeddings_table,                  \* the committed rows of embeddings
    tx_rows, writer_pc                 \* the open transaction's rows; position

chunker_vars == <<text, max_tokens, overlap_tokens, pc, sentences, idx, chunks,
                  current_chunk, current_len, words, start>>

graph_vars == <<cleaned, results>>

edge_vars == <<code_rows, constitution_rows, document_rows, edges>>

ref_vars == <<ref_text, refs>>

etl_vars == <<raw, etl_pc>>

embed_vars == <<embed_texts, batch_size, current_batch_size, offset,
                all_embeddings, embed_pc, last_result>>

writer_vars == <<node_ids, embeddings, embeddings_table, tx_rows, writer_pc>>

stage_vars == <<etl_vars, embed_vars, writer_vars>>

vars == <<chunker_vars, graph_vars, edge_vars, ref_vars, stage_vars>>

\* run_etl was not called
NoEtlInput ==
    /\ raw = <<>>
    /\ etl_pc = "idle"

\* embed_all is not running
EmbedderIdle ==
    /\ embed_texts = <<>>
    /\ batch_size = 0
    /\ current_batch_size = 0
    /\ offset = 0
    /\ all_embeddings = <<>>
    /\ embed_pc = "idle"
    /\ last_result = "none"

\* write_embeddings is not running
WriterIdle ==
    /\ node_ids = <<>>
    /\ embeddings = <<>>
    /\ embeddings_table = {}
    /\ tx_rows = <<>>
    /\ writer_pc = "idle"

StagesIdle == NoEtlInput /\ EmbedderIdle /\ WriterIdle

\* no raw rows were read and build_edges was not called
NoEdgeInput ==
    /\ code_rows = <<>>
    /\ constitution_rows = <<>>
    /\ document_rows = <<>>
    /\ edges = <<>>

\* extract_section_refs was not called
NoRefInput ==
    /\ ref_text = <<>>
    /\ refs = <<>>

\* chunk_text is not running
ChunkerIdle ==
    /\ text = <<>>
    /\ max_tokens = 0
    /\ overlap_tokens = 0
    /\ pc = "idle"
    /\ sentences = <<>>
    /\ idx = 0
    /\ chunks = <<>>
    /\ current_chunk = <<>>
    /\ current_len = 0
    /\ words = <<>>
    /\ start = 0

Init ==
    /\ text \in Texts
    /\ max_tokens \in 0..MaxTokensBound
    /\ overlap_tokens \in 0..MaxOverlapBound
    /\ pc = "chunk_text"
    /\ sentences = <<>>
    /\ idx = 0
    /\ chunks = <<>>
    /\ current_chunk = <<>>
    /\ current_len = 0
    /\ words = <<>>
    /\ start = 0
    /\ cleaned = CleanedOf(<<>>)
    /\ results = <<>>
    /\ NoEdgeInput
    /\ NoRefInput
    /\ StagesIdle

\* WholeText with char_end counted in characters, not bytes
WholeText_CharCount ==
    /\ pc = "chunk_text"
    /\ approx_token_count(text) <= max_tokens
    /\ chunks' = <<[text |-> text, char_start |-> 0, char_end |-> Len(text)]>>
    /\ pc' = "done"
    /\ UNCHANGED <<graph_vars, edge_vars, ref_vars, stage_vars>>
    /\ UNCHANGED <<text, max_tokens, overlap_tokens, sentences, idx,
                   current_chunk, current_len, words, start>>

\* chunker.rs 28-35: the whole text fits
WholeText ==
    /\ pc = "chunk_text"
    /\ approx_token_count(text) <= max_tokens
    /\ chunks' = <<[text |-> text, char_start |-> 0, char_end |-> len(text)]>>
    /\ pc' = "done"
    /\ UNCHANGED <<graph_vars, edge_vars, ref_vars, stage_vars>>
    /\ UNCHANGED <<text, max_tokens, overlap_tokens, sentences, idx,
                   current_chunk, current_len, words, start>>

\* chunker.rs 37-40: otherwise split into sentences and enter the loop
SplitSentences ==
    /\ pc = "chunk_text"
    /\ approx_token_count(text) > max_tokens
    /\ sentences' = split_sentences(text)
    /\ idx' = 1
    /\ pc' = "for_sentence"
    /\ UNCHANGED <<graph_vars, edge_vars, ref_vars, stage_vars>>
    /\ UNCHANGED <<text, max_tokens, overlap_tokens, chunks,
                   current_chunk, current_len, words, start>>

\* chunker.rs 46-59 and 115-128: a sentence longer than max_tokens flushes the
\* pending chunk and enters split_by_words
ForceSplit ==
    /\ pc = "for_sentence"
    /\ idx <= Len(sentences)
    /\ approx_token_count(sentences[idx].text) > max_tokens
    /\ chunks' = IF current_chunk # <<>>
                 THEN Append(chunks, spans_to_chunk(current_chunk))
                 ELSE chunks
    /\ current_chunk' = <<>>
    /\ current_len' = 0
    /\ words' = split_whitespace(sentences[idx].text)
    /\ start' = 0
    /\ pc' = IF split_whitespace(sentences[idx].text) = <<>>
             THEN "for_sentence" ELSE "split_by_words"
    /\ idx' = IF split_whitespace(sentences[idx].text) = <<>> THEN idx + 1 ELSE idx
    /\ UNCHANGED <<graph_vars, edge_vars, ref_vars, stage_vars>>
    /\ UNCHANGED <<text, max_tokens, overlap_tokens, sentences>>

\* chunker.rs 130-148: one iteration of the while loop of split_by_words
WindowStep ==
    /\ pc = "split_by_words"
    /\ LET end == window_end(words, start, max_tokens)
       IN  IF end = 0
           THEN \* words[end - 1]: usize underflow, the call panics
                /\ pc' = "panic"
                /\ UNCHANGED <<chunks, idx, start, words>>
           ELSE IF Len(chunks) >= MemoryLimit
           THEN \* chunks.push: the allocation fails, the process aborts
                /\ pc' = "oom"
                /\ UNCHANGED <<chunks, idx, start, words>>
           ELSE /\ chunks' = Append(chunks,
                       window_span(sentences[idx].text, words, start, end,
                                   sentences[idx].byte_start))
                /\ IF end >= Len(words)
                   THEN /\ pc' = "for_sentence"
                        /\ idx' = idx + 1
                        /\ words' = <<>>
                        /\ start' = 0
                   ELSE /\ start' = saturating_sub(end, overlap_tokens)
                        /\ UNCHANGED <<pc, idx, words>>
    /\ UNCHANGED <<graph_vars, edge_vars, ref_vars, stage_vars>>
    /\ UNCHANGED <<text, max_tokens, overlap_tokens, sentences,
                   current_chunk, current_len>>

\* chunker.rs 61-82: close the chunk on overflow, seed the next one with the
\* overlap, then push the sentence
Accumulate ==
    /\ pc = "for_sentence"
    /\ idx <= Len(sentences)
    /\ LET sentence == sentences[idx]
           sent_len == approx_token_count(sentence.text)
           overflow == current_len + sent_len > max_tokens /\ current_chunk # <<>>
           seed == build_overlap(current_chunk, overlap_tokens)
       IN  /\ sent_len <= max_tokens
           /\ chunks' = IF overflow
                        THEN Append(chunks, spans_to_chunk(current_chunk))
                        ELSE chunks
           /\ current_chunk' = Append(IF overflow THEN seed.chunk ELSE current_chunk,
                                      sentence)
           /\ current_len' = (IF overflow THEN seed.len ELSE current_len) + sent_len
    /\ idx' = idx + 1
    /\ UNCHANGED <<graph_vars, edge_vars, ref_vars, stage_vars>>
    /\ UNCHANGED <<text, max_tokens, overlap_tokens, pc, sentences, words, start>>

\* chunker.rs 85-89: the pending chunk is pushed and the vector returned
Finish ==
    /\ pc = "for_sentence"
    /\ idx > Len(sentences)
    /\ chunks' = IF current_chunk # <<>>
                 THEN Append(chunks, spans_to_chunk(current_chunk))
                 ELSE chunks
    /\ pc' = "done"
    /\ UNCHANGED <<graph_vars, edge_vars, ref_vars, stage_vars>>
    /\ UNCHANGED <<text, max_tokens, overlap_tokens, sentences, idx,
                   current_chunk, current_len, words, start>>

Next ==
    \/ WholeText
    \/ SplitSentences
    \/ ForceSplit
    \/ WindowStep
    \/ Accumulate
    \/ Finish

Spec == Init /\ [][Next]_vars

\* chunk_text runs to its end once called
FairSpec == Spec /\ WF_vars(Next)

(***************************************************************************)
(* The pipeline run NumRuns times on one cleaned input.                    *)
(***************************************************************************)
GraphInit ==
    /\ \E recs \in SeqsUpTo(TaggedRows, MaxRows) : cleaned = CleanedOf(recs)
    /\ results = <<>>
    /\ NoEdgeInput
    /\ NoRefInput
    /\ text = <<>>
    /\ max_tokens = 0
    /\ overlap_tokens = 0
    /\ pc = "idle"
    /\ sentences = <<>>
    /\ idx = 0
    /\ chunks = <<>>
    /\ current_chunk = <<>>
    /\ current_len = 0
    /\ words = <<>>
    /\ start = 0
    /\ StagesIdle

\* nodes.rs 46-385: one run of build_nodes
BuildNodes ==
    /\ Len(results) < NumRuns
    /\ \E title_order \in Orders(DOMAIN titles_seen(cleaned["virginia_code"])),
          chapter_order \in Orders(DOMAIN chapters_seen(cleaned["virginia_code"])),
          article_order \in Orders(DOMAIN articles_seen(cleaned["constitution"])) :
           results' = Append(results,
                             build_nodes(cleaned, title_order, chapter_order,
                                         article_order))
    /\ UNCHANGED cleaned
    /\ UNCHANGED chunker_vars
    /\ UNCHANGED <<edge_vars, ref_vars, stage_vars>>

GraphNext == BuildNodes

GraphSpec == GraphInit /\ [][GraphNext]_vars

(***************************************************************************)
(* main.rs 96-141: the rows are read, cleaned (run_etl), turned into nodes *)
(* (build_nodes) and then into edges (build_edges, which is given the rows *)
(* as read).  Cleaning keeps the key columns of a row as they are and      *)
(* drops some statute rows (etl/mod.rs 96-105).                            *)
(***************************************************************************)
\* Texts with citations: of section 1-200, of section 1-200.1, and a text of
\* three sentences whose first cites section 1-200
CiteText == <<"§", " ", "1", "-", "2", "0", "0">>
CiteNextText == CiteText \o <<".", "1">>
CiteLongText == CiteText \o <<".", " ", "a", " ", "a", ".", " ", "a", " ", "a">>

\* Document contents: a link to section 1-200, and three sentences whose
\* last cites it
HrefContent ==
    HrefLit \o <<"=", "\"">> \o VacodeLit \o <<"1", "-", "2", "0", "0", "\"">>
LongContent == <<"a", " ", "a", ".", " ", "a", " ", "a", ".", " ">> \o CiteText

\* etl/mod.rs 304-306: title_clean + " " + content_clean, for a document
\* without title whose content has no markup
document_clean_text(content) == <<" ">> \o content

PipelineCodeRows ==
    [section : {"", "1", "1-200"}, title_num : {"1"}, title_name : {"T"},
     chapter_num : {"", "1"}, chapter_name : {"C"},
     clean_text : {CiteNextText, CiteLongText}]

PipelineRowsOf(table) ==
    CASE table = "virginia_code" -> PipelineCodeRows
      [] table = "constitution" ->
             [article_id : {1}, article_name : {"A"}, section_count : {1},
              clean_text : {CiteText}]
      [] table = "authorities" -> [short_name : {"S"}, clean_text : {CiteText}]
      [] table = "courts" -> [id : {1}, clean_text : {CiteText}]
      [] table = "popular_names" -> [name : {"P"}, clean_text : {CiteText}]
      [] table = "documents" ->
             {[filename |-> f, content |-> c, clean_text |-> document_clean_text(c)] :
                 f \in {"", "f"}, c \in {HrefContent, LongContent}}

\* a row as read, and whether cleaning keeps it
PipelineRecords ==
    UNION {{[table |-> t, row |-> r, kept |-> k] :
               r \in PipelineRowsOf(t),
               k \in IF t = "virginia_code" THEN BOOLEAN ELSE {TRUE}} :
           t \in Tables}

is_kept(rec) == rec.kept

\* the rows of a table as read
raw_rows(recs, t) == TableOf(recs, t)

PipelineInit ==
    /\ \E recs \in SeqsUpTo(PipelineRecords, MaxRows) :
           /\ code_rows = raw_rows(recs, "virginia_code")
           /\ constitution_rows = raw_rows(recs, "constitution")
           /\ document_rows = raw_rows(recs, "documents")
           /\ cleaned = CleanedOf(SelectSeq(recs, is_kept))
    /\ results = <<>>
    /\ edges = <<>>
    /\ ChunkerIdle
    /\ NoRefInput
    /\ StagesIdle

\* main.rs 134-141: build_edges on the nodes, lookup and texts of the run
BuildEdges ==
    /\ Len(edges) < Len(results)
    /\ LET r == results[Len(edges) + 1]
       IN  edges' = Append(edges,
                           build_edges(r.nodes, r.lookup, code_rows,
                                       constitution_rows, document_rows, r.texts))
    /\ UNCHANGED <<code_rows, constitution_rows, document_rows>>
    /\ UNCHANGED <<chunker_vars, graph_vars, ref_vars, stage_vars>>

PipelineNext ==
    \/ results = <<>> /\ BuildNodes
    \/ BuildEdges

PipelineSpec == PipelineInit /\ [][PipelineNext]_vars

(***************************************************************************)
(* extract_section_refs called on its own (edges.rs 212-249, and the tests *)
(* of edges.rs 255-276).  The text is built from the pieces the three      *)
(* regular expressions react to.                                           *)
(***************************************************************************)
MaxPieces == 5

Pieces ==
    { HrefLit, VacodeLit, <<"§">>, <<" ">>, <<"1", "-", "2">>,
      <<"1", ".", "1", "-", "2">>, <<"/">> }

RECURSIVE concat(_)
concat(ps) == IF ps = <<>> THEN <<>> ELSE Head(ps) \o concat(Tail(ps))

\* the texts of the two tests (edges.rs 261, 273)
SimpleTestText ==
    <<"S", "e", "e", " ", "§", " ", "1", "-", "2", "0", "0", " ", "a", "n",
      "d", " ", "§", " ", "2", ".", "2", "-", "3", "7", "0", "0", " ", "f",
      "o", "r", " ", "d", "e", "t", "a", "i", "l", "s", ".">>

HrefTestText ==
    <<"<", "a", " ", "h", "r", "e", "f", "=", "\"", "h", "t", "t", "p",
      "s", ":", "/", "/", "l", "a", "w", ".", "l", "i", "s", ".", "v", "i",
      "r", "g", "i", "n", "i", "a", ".", "g", "o", "v", "/", "v", "a", "c",
      "o", "d", "e", "/", "1", "9", ".", "2", "-", "3", "9", "2", "\"",
      ">", "l", "i", "n", "k", "<", "/", "a", ">">>

RefTexts ==
    { concat(ps) : ps \in SeqsUpTo(Pieces, MaxPieces) }
        \cup {SimpleTestText, HrefTestText}

RefInit ==
    /\ ref_text \in RefTexts
    /\ refs = <<>>
    /\ ChunkerIdle
    /\ cleaned = CleanedOf(<<>>)
    /\ results = <<>>
    /\ NoEdgeInput
    /\ StagesIdle

\* edges.rs 212-249: one call of extract_section_refs
ExtractSectionRefs ==
    /\ refs = <<>>
    /\ refs' = <<extract_section_refs(ref_text)>>
    /\ UNCHANGED ref_text
    /\ UNCHANGED <<chunker_vars, graph_vars, edge_vars, stage_vars>>

RefNext == ExtractSectionRefs

RefSpec == RefInit /\ [][RefNext]_vars


(***************************************************************************)
(* run_etl (etl/mod.rs 21-312) and strip_html (text/html.rs 4-21): the raw  *)
(* rows main.rs reads, cleaned table by table, then given to build_nodes.   *)
(* Names and keys are strings of one character, texts are sequences of      *)
(* characters.                                                              *)
(***************************************************************************)
MaxRawRows == 2

\* the literals of the len_chars filters
CodeMinChars == 20
AuthorityMinChars == 10
PopularNameMinChars == 10

\* the text nodes of Html::parse_fragment, joined with " "
RECURSIVE text_nodes(_, _)
text_nodes(s, in_tag) ==
    IF s = <<>> THEN <<>>
    ELSE IF in_tag
         THEN text_nodes(Tail(s), Head(s) # ">")
         ELSE IF Head(s) = "<"
              THEN <<" ">> \o text_nodes(Tail(s), TRUE)
              ELSE <<Head(s)>> \o text_nodes(Tail(s), FALSE)

RECURSIVE join_words(_)
join_words(ws) ==
    IF ws = <<>> THEN <<>>
    ELSE IF Len(ws) = 1 THEN ws[1].w
    ELSE ws[1].w \o <<" ">> \o join_words(Tail(ws))

\* s.split_whitespace().collect::<Vec<_>>().join(" ")
normalize_whitespace(s) == join_words(split_whitespace(s))

strip_html(input) ==
    IF input = <<>> THEN <<>>
    ELSE IF \A i \in 1..Len(input) : input[i] # "<"
         THEN normalize_whitespace(input)
         ELSE normalize_whitespace(text_nodes(input, FALSE))

\* the characters of a name or key
name_chars(s) == IF s = "" THEN <<>> ELSE <<s>>

\* str.len_chars()
len_chars(s) == Len(s)

ShortTitle == <<"a">>
LongTitle == <<"<", "b", ">", "a", " ", "a", " ", "a", " ", "a", " ", "a", " ", "a", ".", "<", "/", "b", ">">>
BodyHtml == <<"<", "p", ">", "a", " ", "a", ".", " ", "a", " ", "a", ".", " ", "a", "<", "/", "p", ">">>
BlankHtml == <<"<", "p", ">", " ", "<", "/", "p", ">">>

RawCodeRows ==
    [section : {"", "1"}, title_num : {"1"}, title_name : {"T"},
     chapter_num : {"1"}, chapter_name : {"C"},
     title : {ShortTitle, LongTitle}, body : {<<>>, BlankHtml, BodyHtml}]
RawConstitutionRows ==
    [article_id : {1}, article_name : {"A"}, section_name : {<<"1">>},
     section_title : {ShortTitle}, section_text : {<<>>, BlankHtml, BodyHtml},
     section_count : {1}]
RawAuthorityRows ==
    [short_name : {"", "S"}, title : {ShortTitle, LongTitle}, body : {<<>>, BodyHtml}]
RawCourtRows ==
    [id : {1}, name : {ShortTitle}, locality : {<<>>}, court_type : {<<>>},
     district : {<<>>}, city : {<<>>}]
RawPopularNameRows == [name : {"", "P"}, body : {<<>>, BodyHtml}]
RawDocumentRows ==
    [filename : {"", "f"}, title : {<<>>, ShortTitle}, content : {<<>>, BodyHtml}]

RawRowsOf(table) ==
    CASE table = "virginia_code" -> RawCodeRows
      [] table = "constitution" -> RawConstitutionRows
      [] table = "authorities" -> RawAuthorityRows
      [] table = "courts" -> RawCourtRows
      [] table = "popular_names" -> RawPopularNameRows
      [] table = "documents" -> RawDocumentRows

RawRecords == UNION {{[table |-> t, row |-> r] : r \in RawRowsOf(t)} : t \in Tables}

\* etl/mod.rs 90-97
code_clean_text(row) ==
    name_chars(row.title_name) \o <<" ", "|", " ">> \o name_chars(row.chapter_name)
        \o <<" ", "|", " ">> \o strip_html(row.title) \o <<" ">> \o strip_html(row.body)

\* every section passes
code_section_filter_Any(row) == TRUE

\* etl/mod.rs 99
code_section_filter(row) == len_chars(name_chars(row.section)) > 0

\* etl/mod.rs 99-100
code_filter(row) ==
    code_section_filter(row) /\ len_chars(code_clean_text(row)) > CodeMinChars

\* the rows unique(clean_text, First) keeps: the first of every clean_text
unique_first(rows) ==
    {i \in 1..Len(rows) :
        \A j \in 1..(i - 1) : code_clean_text(rows[j]) # code_clean_text(rows[i])}

\* clean_virginia_code; order is the order in which unique returns the rows
clean_virginia_code(rows, order) ==
    LET kept == SelectSeq(rows, code_filter)
    IN  [k \in 1..Len(order) |->
            [section |-> kept[order[k]].section,
             title_num |-> kept[order[k]].title_num,
             title_name |-> kept[order[k]].title_name,
             chapter_num |-> kept[order[k]].chapter_num,
             chapter_name |-> kept[order[k]].chapter_name,
             clean_text |-> code_clean_text(kept[order[k]])]]

\* the orders unique can return for these rows
unique_orders(rows) == Orders(unique_first(SelectSeq(rows, code_filter)))

\* etl/mod.rs 148-160
constitution_clean_text(row) ==
    name_chars(row.article_name) \o <<" ", "|", " ">> \o strip_html(row.section_name)
        \o <<" ">> \o strip_html(row.section_title) \o <<" ">>
        \o strip_html(row.section_text)

constitution_filter(row) == len_chars(strip_html(row.section_text)) > 0

clean_constitution(rows) ==
    LET kept == SelectSeq(rows, constitution_filter)
    IN  [k \in 1..Len(kept) |->
            [article_id |-> kept[k].article_id, article_name |-> kept[k].article_name,
             section_count |-> kept[k].section_count,
             clean_text |-> constitution_clean_text(kept[k])]]

\* etl/mod.rs 198-202
authority_clean_text(row) == strip_html(row.title) \o <<" ">> \o strip_html(row.body)

authority_filter(row) ==
    /\ len_chars(name_chars(row.short_name)) > 0
    /\ len_chars(authority_clean_text(row)) > AuthorityMinChars

clean_authorities(rows) ==
    LET kept == SelectSeq(rows, authority_filter)
    IN  [k \in 1..Len(kept) |->
            [short_name |-> kept[k].short_name,
             clean_text |-> authority_clean_text(kept[k])]]

\* etl/mod.rs 229-241
clean_courts(rows) ==
    [k \in 1..Len(rows) |->
        [id |-> rows[k].id,
         clean_text |-> rows[k].name \o <<" ">> \o rows[k].locality \o <<" ">>
                        \o rows[k].court_type \o <<" ">> \o rows[k].district
                        \o <<" ">> \o rows[k].city]]

\* etl/mod.rs 268-272
popular_name_clean_text(row) == name_chars(row.name) \o <<" ">> \o strip_html(row.body)

popular_name_filter(row) ==
    /\ len_chars(name_chars(row.name)) > 0
    /\ len_chars(popular_name_clean_text(row)) > PopularNameMinChars

clean_popular_names(rows) ==
    LET kept == SelectSeq(rows, popular_name_filter)
    IN  [k \in 1..Len(kept) |->
            [name |-> kept[k].name, clean_text |-> popular_name_clean_text(kept[k])]]

\* etl/mod.rs 304-307
etl_document_clean_text(row) ==
    strip_html(row.title) \o <<" ">> \o strip_html(row.content)

document_filter(row) == len_chars(name_chars(row.filename)) > 0

clean_documents(rows) ==
    LET kept == SelectSeq(rows, document_filter)
    IN  [k \in 1..Len(kept) |->
            [filename |-> kept[k].filename,
             clean_text |-> etl_document_clean_text(kept[k])]]

\* run_etl: the six tables cleaned
run_etl(tables, order) ==
    [t \in Tables |->
        CASE t = "virginia_code" -> clean_virginia_code(tables[t], order)
          [] t = "constitution" -> clean_constitution(tables[t])
          [] t = "authorities" -> clean_authorities(tables[t])
          [] t = "courts" -> clean_courts(tables[t])
          [] t = "popular_names" -> clean_popular_names(tables[t])
          [] t = "documents" -> clean_documents(tables[t])]

EtlInit ==
    /\ \E recs \in SeqsUpTo(RawRecords, MaxRawRows) : raw = CleanedOf(recs)
    /\ etl_pc = "run_etl"
    /\ cleaned = CleanedOf(<<>>)
    /\ results = <<>>
    /\ ChunkerIdle
    /\ NoEdgeInput
    /\ NoRefInput
    /\ EmbedderIdle
    /\ WriterIdle

\* main.rs 84-91: run_etl on the rows read
RunEtl ==
    /\ etl_pc = "run_etl"
    /\ \E order \in unique_orders(raw["virginia_code"]) :
           cleaned' = run_etl(raw, order)
    /\ etl_pc' = "done"
    /\ UNCHANGED <<raw, results>>
    /\ UNCHANGED <<chunker_vars, edge_vars, ref_vars, embed_vars, writer_vars>>

\* main.rs: run_etl, then build_nodes on its result
EtlNext ==
    \/ RunEtl
    \/ (etl_pc = "done" /\ results = <<>> /\ BuildNodes)

EtlSpec == EtlInit /\ [][EtlNext]_vars


(***************************************************************************)
(* Embedder::embed_all (embed/mod.rs 64-122).  The texts are named t1, t2;  *)
(* the model answers a batch with one vector per text, in order, or with    *)
(* an error.                                                                *)
(***************************************************************************)
MaxTexts == 3

MaxBatchSize == 4

TextNames == {"t1", "t2"}

Max2(a, b) == IF a >= b THEN a ELSE b

\* the vector the model computes for one text
vector_of(t) == <<"vector", t>>

\* model.embed(batch) answering Ok
model_embed(batch) == [i \in 1..Len(batch) |-> vector_of(batch[i])]

\* let end = (offset + current_batch_size).min(texts.len())
batch_end(off, size, n) == Min2(off + size, n)

\* current_batch_size = (current_batch_size / 2).max(1)
reduced_batch_size(size) == Max2(size \div 2, 1)

\* the failed batch is dropped and the loop goes on behind it
retry_offset_SkipBatch(off, end) == end

\* continue: offset keeps its value
retry_offset(off, end) == off

EmbedInit ==
    /\ embed_texts \in SeqsUpTo(TextNames, MaxTexts)
    /\ batch_size \in 0..MaxBatchSize
    /\ current_batch_size = 0
    /\ offset = 0
    /\ all_embeddings = <<>>
    /\ embed_pc = "embed_all"
    /\ last_result = "none"
    /\ ChunkerIdle
    /\ cleaned = CleanedOf(<<>>)
    /\ results = <<>>
    /\ NoEdgeInput
    /\ NoRefInput
    /\ NoEtlInput
    /\ WriterIdle

EmbedUnchanged ==
    UNCHANGED <<chunker_vars, graph_vars, edge_vars, ref_vars, etl_vars, writer_vars>>

\* embed/mod.rs 65-81: the empty case, the division by the batch size, the
\* locals
EmbedAllEnter ==
    /\ embed_pc = "embed_all"
    /\ IF embed_texts = <<>>
       THEN embed_pc' = "ok" /\ UNCHANGED current_batch_size
       ELSE IF batch_size = 0
            THEN embed_pc' = "panic" /\ current_batch_size' = batch_size
            ELSE embed_pc' = "while" /\ current_batch_size' = batch_size
    /\ UNCHANGED <<embed_texts, batch_size, offset, all_embeddings, last_result>>
    /\ EmbedUnchanged

\* embed/mod.rs 83-103: the model answers the batch
BatchOk ==
    /\ embed_pc = "while"
    /\ offset < Len(embed_texts)
    /\ LET end == batch_end(offset, current_batch_size, Len(embed_texts))
       IN  /\ all_embeddings' =
                  all_embeddings \o model_embed(SubSeq(embed_texts, offset + 1, end))
           /\ offset' = end
    /\ last_result' = "ok"
    /\ UNCHANGED <<embed_texts, batch_size, current_batch_size, embed_pc>>
    /\ EmbedUnchanged

\* embed/mod.rs 104-116: the model fails with a memory-pressure message
BatchMemoryPressure ==
    /\ embed_pc = "while"
    /\ offset < Len(embed_texts)
    /\ last_result' = "memory"
    /\ IF current_batch_size > 1
       THEN /\ current_batch_size' = reduced_batch_size(current_batch_size)
            /\ offset' = retry_offset(offset,
                             batch_end(offset, current_batch_size, Len(embed_texts)))
            /\ UNCHANGED embed_pc
       ELSE /\ embed_pc' = "err"
            /\ UNCHANGED <<current_batch_size, offset>>
    /\ UNCHANGED <<embed_texts, batch_size, all_embeddings>>
    /\ EmbedUnchanged

\* embed/mod.rs 104-116: the model fails with any other message
BatchOtherError ==
    /\ embed_pc = "while"
    /\ offset < Len(embed_texts)
    /\ last_result' = "other"
    /\ embed_pc' = "err"
    /\ UNCHANGED <<embed_texts, batch_size, current_batch_size, offset, all_embeddings>>
    /\ EmbedUnchanged

\* embed/mod.rs 82, 120-121: the loop ends, Ok(all_embeddings)
EmbedAllReturn ==
    /\ embed_pc = "while"
    /\ offset >= Len(embed_texts)
    /\ embed_pc' = "ok"
    /\ UNCHANGED <<embed_texts, batch_size, current_batch_size, offset,
                   all_embeddings, last_result>>
    /\ EmbedUnchanged

EmbedNext ==
    \/ EmbedAllEnter
    \/ BatchOk
    \/ BatchMemoryPressure
    \/ BatchOtherError
    \/ EmbedAllReturn

EmbedSpec == EmbedInit /\ [][EmbedNext]_vars


(***************************************************************************)
(* write_embeddings (db/writer.rs 111-131).  An f32 is its 32 bits; a row   *)
(* of the embeddings table is a node_id and a blob of bytes.                *)
(***************************************************************************)
MaxIds == 2

NodeIdValues == {1, 2}

\* the f32 values of an embedding, as bit patterns
F32Bits == {0, 258}

Vectors == {<<v>> : v \in F32Bits}

\* f32::to_le_bytes
to_le_bytes(v) ==
    <<v % 256, (v \div 256) % 256, (v \div 65536) % 256, (v \div 16777216) % 256>>

\* embed::embedding_to_blob
RECURSIVE embedding_to_blob(_)
embedding_to_blob(embedding) ==
    IF embedding = <<>> THEN <<>>
    ELSE to_le_bytes(Head(embedding)) \o embedding_to_blob(Tail(embedding))

\* no comparison of the two lengths
lengths_equal_Unchecked(ids, es) == TRUE

\* assert_eq!(node_ids.len(), embeddings.len())
lengths_equal(ids, es) == Len(ids) = Len(es)

\* the number of pairs of node_ids.iter().zip(embeddings.iter())
zip_len(ids, es) == Min2(Len(ids), Len(es))

\* the node_ids of a set or sequence of rows
row_ids(rows) == {row.node_id : row \in rows}

StoredRows ==
    {{}} \cup {{[node_id |-> id, embedding |-> embedding_to_blob(e)]} :
                  id \in NodeIdValues, e \in Vectors}

WriterInit ==
    /\ node_ids \in SeqsUpTo(NodeIdValues, MaxIds)
    /\ embeddings \in SeqsUpTo(Vectors, MaxIds)
    /\ embeddings_table \in StoredRows
    /\ tx_rows = <<>>
    /\ writer_pc = "write_embeddings"
    /\ ChunkerIdle
    /\ cleaned = CleanedOf(<<>>)
    /\ results = <<>>
    /\ NoEdgeInput
    /\ NoRefInput
    /\ NoEtlInput
    /\ EmbedderIdle

WriterUnchanged ==
    UNCHANGED <<chunker_vars, graph_vars, edge_vars, ref_vars, etl_vars, embed_vars>>

\* writer.rs 116-122: the assertion, then the transaction and the statement
WriteEmbeddingsBegin ==
    /\ writer_pc = "write_embeddings"
    /\ writer_pc' = IF lengths_equal(node_ids, embeddings) THEN "insert" ELSE "panic"
    /\ UNCHANGED <<node_ids, embeddings, embeddings_table, tx_rows>>
    /\ WriterUnchanged

\* writer.rs 124-127: one stmt.execute; a node_id already in the table
\* violates the primary key, the error returns and the dropped transaction
\* rolls back
InsertRow ==
    /\ writer_pc = "insert"
    /\ Len(tx_rows) < zip_len(node_ids, embeddings)
    /\ LET k == Len(tx_rows) + 1
           row == [node_id |-> node_ids[k],
                   embedding |-> embedding_to_blob(embeddings[k])]
       IN  IF row.node_id \in row_ids(embeddings_table) \cup
                              row_ids({tx_rows[i] : i \in 1..Len(tx_rows)})
           THEN writer_pc' = "err" /\ tx_rows' = <<>>
           ELSE tx_rows' = Append(tx_rows, row) /\ UNCHANGED writer_pc
    /\ UNCHANGED <<node_ids, embeddings, embeddings_table>>
    /\ WriterUnchanged

\* writer.rs 129-130: tx.commit(), Ok(node_ids.len())
Commit ==
    /\ writer_pc = "insert"
    /\ Len(tx_rows) = zip_len(node_ids, embeddings)
    /\ embeddings_table' = embeddings_table \cup {tx_rows[i] : i \in 1..Len(tx_rows)}
    /\ tx_rows' = <<>>
    /\ writer_pc' = "ok"
    /\ UNCHANGED <<node_ids, embeddings>>
    /\ WriterUnchanged

WriterNext ==
    \/ WriteEmbeddingsBegin
    \/ InsertRow
    \/ Commit

WriterSpec == WriterInit /\ [][WriterNext]_vars


(***************************************************************************)
(* Properties of chunk_text.                                               *)
(***************************************************************************)
Returned == pc = "done"

\* The words of the text as the chunker counts them: word j of sentence i,
\* with its byte range in the text.
TextTokens ==
    LET ss == split_sentences(text)
    IN  UNION {{[from |-> ss[i].byte_start + w.off,
                 to |-> ss[i].byte_start + w.off + len(w.w)] :
                    w \in {split_whitespace(ss[i].text)[j] :
                              j \in 1..Len(split_whitespace(ss[i].text))}} :
               i \in 1..Len(ss)}

\* The tokens lying inside both byte ranges of two chunks
SharedTokens(c, d) ==
    {t \in TextTokens : /\ c.char_start <= t.from /\ t.to <= c.char_end
                        /\ d.char_start <= t.from /\ t.to <= d.char_end}

\* C1: a text of at most max_tokens words comes back as exactly one span,
\* from 0 to len(text), whose text is the input and is the slice of the input
\* at its own offsets.
C1_ShortTextOneSpan ==
    (Returned /\ approx_token_count(text) <= max_tokens) =>
        /\ Len(chunks) = 1
        /\ chunks[1].char_start = 0
        /\ chunks[1].char_end = len(text)
        /\ chunks[1].text = text
        /\ byte_slice(text, chunks[1].char_start, chunks[1].char_end) = text

C1_Witness ==
    /\ Returned
    /\ approx_token_count(text) = 2
    /\ max_tokens = 2
    /\ "U" \in {text[i] : i \in 1..Len(text)}
    /\ Len(chunks) = 1

\* C2: every chunk returned holds at most max_tokens words.
C2_TokenBudget ==
    Returned =>
        \A k \in 1..Len(chunks) : approx_token_count(chunks[k].text) <= max_tokens

\* C3: every span lies inside the text, 0 <= char_start <= char_end <= len.
C3_SpanInText ==
    \A k \in 1..Len(chunks) :
        /\ 0 <= chunks[k].char_start
        /\ chunks[k].char_start <= chunks[k].char_end
        /\ chunks[k].char_end <= len(text)

\* a run that flushed a sentence chunk, then force-split the last sentence
C3_Witness ==
    /\ Returned
    /\ Len(chunks) >= 3
    /\ sentences # <<>>
    /\ approx_token_count(sentences[Len(sentences)].text) > max_tokens
    /\ approx_token_count(sentences[1].text) <= max_tokens
    /\ chunks[Len(chunks)].char_end = len(text)

\* C4: with max_tokens >= 1 every call of chunk_text returns.
C4_Terminates == (max_tokens >= 1) => <>Returned

\* C5: two consecutive chunks share at most overlap_tokens tokens.
C5_OverlapBound ==
    \A k \in 1..(Len(chunks) - 1) :
        Cardinality(SharedTokens(chunks[k], chunks[k + 1])) <= overlap_tokens

C5_Witness ==
    /\ Returned
    /\ overlap_tokens = 1
    /\ \E k \in 1..(Len(chunks) - 1) :
           Cardinality(SharedTokens(chunks[k], chunks[k + 1])) = 1

\* C6: char_start and char_end never decrease along the output.
C6_Monotone ==
    \A k \in 1..(Len(chunks) - 1) :
        /\ chunks[k].char_start <= chunks[k + 1].char_start
        /\ chunks[k].char_end <= chunks[k + 1].char_end

C6_Witness ==
    /\ Returned
    /\ Len(chunks) >= 3
    /\ \A k \in 1..(Len(chunks) - 1) :
           /\ chunks[k].char_start < chunks[k + 1].char_start
           /\ chunks[k].char_end < chunks[k + 1].char_end

\* C7: returned chunks two or more apart have disjoint byte ranges.
C7_OnlyAdjacentOverlap ==
    Returned =>
        \A i \in 1..Len(chunks) : \A j \in 1..Len(chunks) :
            (j >= i + 2) => chunks[j].char_start >= chunks[i].char_end

(***************************************************************************)
(* Properties of build_nodes.                                              *)
(***************************************************************************)
NodeKey(n) == <<n.source, n.source_id, n.chunk_idx>>

NodeOf(r, id) == CHOOSE n \in {r.nodes[i] : i \in 1..Len(r.nodes)} : n.id = id

\* the id given to each (source, source_id, chunk_idx) by a run
IdAssignment(r) == {<<NodeKey(r.nodes[i]), r.nodes[i].id>> : i \in 1..Len(r.nodes)}

\* C8: no two nodes of a run share (source, source_id, chunk_idx).
C8_NodeKeyUnique ==
    \A r \in 1..Len(results) :
        \A i \in 1..Len(results[r].nodes) : \A j \in 1..Len(results[r].nodes) :
            i # j => NodeKey(results[r].nodes[i]) # NodeKey(results[r].nodes[j])

\* C9: the ids listed under a lookup key have chunk_idx 0, 1, 2, ... in list
\* order.
C9_LookupChunkOrder ==
    \A r \in 1..Len(results) :
        \A key \in DOMAIN results[r].lookup :
            \A k \in 1..Len(results[r].lookup[key]) :
                NodeOf(results[r], results[r].lookup[key][k]).chunk_idx = k - 1

\* C10: two runs on the same input give every (source, source_id, chunk_idx)
\* the same id.
C10_SameIdsEveryRun ==
    \A r \in 1..Len(results) : \A q \in 1..Len(results) :
        IdAssignment(results[r]) = IdAssignment(results[q])

Range(v) == {v[i] : i \in 1..Len(v)}

\* the edges the r-th build_edges call pushed, before the sort
Pushed(r) ==
    pushed_edges(results[r].nodes, results[r].lookup, code_rows,
                 constitution_rows, document_rows, results[r].texts)

NodeIds(r) == {results[r].nodes[i].id : i \in 1..Len(results[r].nodes)}

EdgesOfType(r, rel_type) == {e \in Range(edges[r]) : e.rel_type = rel_type}

\* C11: the edge list build_edges returns is strictly ascending by
\* (from_id, to_id, rel_type), hence without duplicates.
C11_EdgesSortedUnique ==
    \A r \in 1..Len(edges) :
        \A i \in 1..Len(edges[r]) : \A j \in 1..Len(edges[r]) :
            i < j =>
                \/ edges[r][i].from_id < edges[r][j].from_id
                \/ /\ edges[r][i].from_id = edges[r][j].from_id
                   /\ edges[r][i].to_id < edges[r][j].to_id
                \/ /\ edges[r][i].from_id = edges[r][j].from_id
                   /\ edges[r][i].to_id = edges[r][j].to_id
                   /\ rel_type_rank(edges[r][i].rel_type)
                          < rel_type_rank(edges[r][j].rel_type)

\* an edge was pushed more than once, and two edges were pushed in
\* descending order
C11_Witness ==
    /\ edges # <<>>
    /\ Len(Pushed(1)) > Len(edges[1])
    /\ \E i \in 1..Len(Pushed(1)) - 1 : edge_lt(Pushed(1)[i + 1], Pushed(1)[i])

\* C12: both ends of every edge are ids of nodes of the node list.
C12_NoDanglingEdge ==
    \A r \in 1..Len(edges) :
        \A e \in Range(edges[r]) : e.from_id \in NodeIds(r) /\ e.to_id \in NodeIds(r)

\* the chapter key of the first statute row and the section a text cites
\* are not in the lookup, and the rows after it still got their edges
C12_Witness ==
    /\ edges # <<>>
    /\ Len(code_rows) = 2
    /\ <<"virginia_code", ch_key(code_rows[1])>> \notin DOMAIN results[1].lookup
    /\ <<"virginia_code", "1-200.1">> \notin DOMAIN results[1].lookup
    /\ \E n \in Range(results[1].nodes) :
           /\ n.node_type = "section"
           /\ <<"1", "-", "2", "0", "0", ".", "1">>
                  \in Range(extract_section_refs(results[1].texts[n.id]))
    /\ EdgesOfType(1, "contains") # {}

\* C13: when the parent key and the child key of a raw hierarchy record
\* (title and chapter, chapter and section, article and section) are both in
\* the lookup, every node of the parent key has a contains edge to every node
\* of the child key.
HierarchyPairs ==
    UNION {{<<<<"virginia_code", row.title_num>>, <<"virginia_code", ch_key(row)>>>>,
            <<<<"virginia_code", ch_key(row)>>, <<"virginia_code", row.section>>>>} :
           row \in Range(code_rows)}
      \cup {<<<<"constitution", article_key(row.article_id)>>,
              <<"constitution", constitution_section_key(row)>>>> :
            row \in Range(constitution_rows)}

C13_ContainmentComplete ==
    \A r \in 1..Len(edges) :
        \A pair \in HierarchyPairs :
            (pair[1] \in DOMAIN results[r].lookup /\ pair[2] \in DOMAIN results[r].lookup)
            => \A parent \in Range(results[r].lookup[pair[1]]) :
                   \A child \in Range(results[r].lookup[pair[2]]) :
                       Edge(parent, child, "contains") \in Range(edges[r])

\* a chapter and a section of several chunks, each chunk linked
C13_Witness ==
    /\ edges # <<>>
    /\ \E pair \in HierarchyPairs :
           /\ pair[1] \in DOMAIN results[1].lookup
           /\ pair[2] \in DOMAIN results[1].lookup
           /\ Len(results[1].lookup[pair[2]]) >= 2
           /\ \A child \in Range(results[1].lookup[pair[2]]) :
                  NodeOf(results[1], child).node_type = "section"
           /\ \A child \in Range(results[1].lookup[pair[2]]) :
                  Edge(results[1].lookup[pair[1]][1], child, "contains")
                      \in Range(edges[1])

\* C14: every contains edge goes from a synthetic title, chapter or article
\* node to a chapter, section or constitution section node.
C14_ContainsFromAncestor ==
    \A r \in 1..Len(edges) :
        \A e \in EdgesOfType(r, "contains") :
            /\ NodeOf(results[r], e.from_id).synthetic
            /\ NodeOf(results[r], e.from_id).node_type \in {"title", "chapter", "article"}
            /\ NodeOf(results[r], e.to_id).node_type
                   \in {"chapter", "section", "constitution_section"}

NodesOfType(r, node_type) ==
    {n \in Range(results[r].nodes) : n.node_type = node_type}

\* The scenario of C15: one statute record, of title "1" and section "1-200",
\* whose text cites section 1-200.1 and nothing else; no other record.
OneStatuteRecord ==
    /\ Len(code_rows) = 1
    /\ code_rows[1].title_num = "1"
    /\ code_rows[1].section = "1-200"
    /\ code_rows[1].clean_text = CiteNextText
    /\ cleaned["virginia_code"] = code_rows
    /\ \A t \in Tables \ {"virginia_code"} : cleaned[t] = <<>>
    /\ constitution_rows = <<>>
    /\ document_rows = <<>>

\* C15 (as amended): in the scenario the graph has exactly one title node and
\* one section node and no cites edge; its contains edges are title to
\* chapter and chapter to section when the record has a chapter number, and
\* there is none when it has not; no contains edge goes from the title node
\* to the section node.
C15_ScenarioThroughChapter ==
    \A r \in 1..Len(edges) :
        OneStatuteRecord =>
            /\ Cardinality(NodesOfType(r, "title")) = 1
            /\ Cardinality(NodesOfType(r, "section")) = 1
            /\ EdgesOfType(r, "cites") = {}
            /\ LET title == CHOOSE n \in NodesOfType(r, "title") : TRUE
                   section == CHOOSE n \in NodesOfType(r, "section") : TRUE
               IN  IF code_rows[1].chapter_num = ""
                   THEN EdgesOfType(r, "contains") = {}
                   ELSE /\ Cardinality(NodesOfType(r, "chapter")) = 1
                        /\ LET chapter == CHOOSE n \in NodesOfType(r, "chapter") : TRUE
                           IN  EdgesOfType(r, "contains") =
                                   {Edge(title.id, chapter.id, "contains"),
                                    Edge(chapter.id, section.id, "contains")}

\* the edges of the scenario were built, for a record with a chapter number
C15_Witness ==
    /\ edges # <<>>
    /\ OneStatuteRecord
    /\ code_rows[1].chapter_num # ""
    /\ Cardinality(EdgesOfType(1, "contains")) = 2

\* C15 (as stated): in the scenario the graph has exactly one title node, one
\* section node, exactly one contains edge, from the title node to the
\* section node, and no cites edge.
C15_ScenarioTitleToSection ==
    \A r \in 1..Len(edges) :
        OneStatuteRecord =>
            /\ Cardinality(NodesOfType(r, "title")) = 1
            /\ Cardinality(NodesOfType(r, "section")) = 1
            /\ EdgesOfType(r, "cites") = {}
            /\ LET title == CHOOSE n \in NodesOfType(r, "title") : TRUE
                   section == CHOOSE n \in NodesOfType(r, "section") : TRUE
               IN  EdgesOfType(r, "contains") = {Edge(title.id, section.id, "contains")}

\* C16: no cites edge goes from a node to itself.
C16_NoSelfCitation ==
    \A r \in 1..Len(edges) :
        \A e \in EdgesOfType(r, "cites") : e.from_id # e.to_id

\* the nodes whose text cites the key they are registered under
SelfCiting(r) ==
    {n \in Range(results[r].nodes) :
        /\ is_citing_type(n.node_type)
        /\ n.source = "virginia_code"
        /\ \E ref \in Range(extract_section_refs(results[r].texts[n.id])) :
               to_string(ref) = n.source_id}

\* a node cites its own key, and is linked to the other nodes of the key
C16_Witness ==
    /\ edges # <<>>
    /\ \E n \in SelfCiting(1) : \E e \in EdgesOfType(1, "cites") : e.from_id = n.id

\* C17: every cites edge starts at a section, constitution section,
\* authority or popular name node.
C17_CitesFromCitingTypes ==
    \A r \in 1..Len(edges) :
        \A e \in EdgesOfType(r, "cites") :
            NodeOf(results[r], e.from_id).node_type
                \in {"section", "constitution_section", "authority", "popular_name"}

\* a court's text cites a section that has nodes, and cites edges exist
C17_Witness ==
    /\ edges # <<>>
    /\ EdgesOfType(1, "cites") # {}
    /\ \E n \in NodesOfType(1, "court") :
           \E ref \in Range(extract_section_refs(results[1].texts[n.id])) :
               <<"virginia_code", to_string(ref)>> \in DOMAIN results[1].lookup

\* C18: every references edge starts at the first node listed under a
\* document key, which is a chunk 0.
C18_ReferencesFromFirstChunk ==
    \A r \in 1..Len(edges) :
        \A e \in EdgesOfType(r, "references") :
            /\ \E key \in DOMAIN results[r].lookup :
                   key[1] = "documents" /\ results[r].lookup[key][1] = e.from_id
            /\ NodeOf(results[r], e.from_id).chunk_idx = 0

\* a document of several chunks has a references edge
C18_Witness ==
    /\ edges # <<>>
    /\ \E key \in DOMAIN results[1].lookup :
           /\ key[1] = "documents"
           /\ Len(results[1].lookup[key]) >= 2
           /\ \E e \in EdgesOfType(1, "references") :
                  e.from_id = results[1].lookup[key][1]

\* the ids found by more than one of the three passes
FoundTwice(t) ==
    LET h == Range(href_captures(t, 1, <<>>))
        g == Range(section_captures(t, 1, <<>>))
        l == Range(plural_refs(plural_captures(t, 1, <<>>)))
    IN  (h \cap g) \cup (h \cap l) \cup (g \cap l)

\* C19: the list extract_section_refs returns is strictly ascending in
\* lexicographic order, hence free of duplicates, also when an id is found
\* by more than one pass.
C19_RefsSortedUnique ==
    \A r \in 1..Len(refs) :
        \A i \in 1..Len(refs[r]) : \A j \in 1..Len(refs[r]) :
            i < j => str_lt(refs[r][i], refs[r][j])

\* an id found by two passes, and two ids collected in descending order
C19_Witness ==
    /\ refs # <<>>
    /\ FoundTwice(ref_text) # {}
    /\ Len(refs[1]) >= 2
    /\ \E i \in 1..Len(collected_refs(ref_text)) - 1 :
           str_lt(collected_refs(ref_text)[i + 1], collected_refs(ref_text)[i])

\* the positions at which a path under /vacode/ with a non-empty first
\* component starts, in a link: "href" comes earlier in the text
LinkPaths(t) ==
    { j + Len(VacodeLit) : j \in
        { j \in 1..Len(t) :
            /\ starts_with_at(t, j, VacodeLit)
            /\ j + Len(VacodeLit) <= Len(t)
            /\ is_href_key_char(t[j + Len(VacodeLit)])
            /\ \E i \in 1..Len(t) :
                   starts_with_at(t, i, HrefLit) /\ i + Len(HrefLit) <= j } }

\* the path of the first link
FirstLinkPath(t) == CHOOSE p \in LinkPaths(t) : \A q \in LinkPaths(t) : p <= q

\* the index after the segment starting at p: it ends before the next
\* character of stops, or with the text
SegmentEnd(t, p, stops) ==
    IF \E e \in p..Len(t) : t[e] \in stops
    THEN CHOOSE e \in p..Len(t) :
             t[e] \in stops /\ \A d \in p..(e - 1) : t[d] \notin stops
    ELSE Len(t) + 1

\* the component that directly follows /vacode/
FirstComponent(t) ==
    SubSeq(t, FirstLinkPath(t), SegmentEnd(t, FirstLinkPath(t), {"/", "'", "\""}) - 1)

\* the last non-empty component of the path of the first link; the link
\* ends at a quote or with the text
TrailingComponent(t) ==
    LET p == FirstLinkPath(t)
        e == SegmentEnd(t, p, {"'", "\""})
        b == CHOOSE b \in p..(e - 1) :
                 /\ t[b] # "/"
                 /\ b = p \/ t[b - 1] = "/"
                 /\ \A c \in (b + 1)..(e - 1) :
                        t[c] = "/" => \A d \in c..(e - 1) : t[d] = "/"
    IN  SubSeq(t, b, SegmentEnd(t, b, {"/", "'", "\""}) - 1)

\* C20 (as amended): for a text with a link to a path under /vacode/, the
\* key the hyperlink pass extracts is the component that directly follows
\* /vacode/ (the characters up to the next '/', quote or the end of the
\* text), taken verbatim.
C20_HrefFirstComponent ==
    \A r \in 1..Len(refs) :
        LinkPaths(ref_text) # {} => FirstComponent(ref_text) \in Range(refs[r])

\* a link whose path has more than one component was processed
C20_Witness ==
    /\ refs # <<>>
    /\ LinkPaths(ref_text) # {}
    /\ TrailingComponent(ref_text) # FirstComponent(ref_text)
    /\ FirstComponent(ref_text) \in Range(refs[1])

\* C20 (as stated): the key extracted is the trailing (last) component of
\* the link's path, taken verbatim.
C20_HrefTrailingComponent ==
    \A r \in 1..Len(refs) :
        LinkPaths(ref_text) # {} => TrailingComponent(ref_text) \in Range(refs[r])

\* the identifier, if any, that follows the section sign at position i
\* (after optional whitespace)
IdAfterSign(t, i) ==
    LET k == whitespace_end(t, i + 1)
    IN  IF section_number_end(t, k) = 0 THEN <<>>
        ELSE SubSeq(t, k, section_number_end(t, k) - 1)

\* C21: every identifier digits(.digits)*-digits(.digits)* that follows a
\* section sign is in the list extract_section_refs returns, and the text of
\* the test yields exactly 1-200 and 2.2-3700.
C21_SingularPass ==
    \A r \in 1..Len(refs) :
        /\ \A i \in 1..Len(ref_text) :
               (ref_text[i] = "§" /\ IdAfterSign(ref_text, i) # <<>>)
               => IdAfterSign(ref_text, i) \in Range(refs[r])
        /\ ref_text = SimpleTestText
           => Range(refs[r]) = {<<"1", "-", "2", "0", "0">>,
                                <<"2", ".", "2", "-", "3", "7", "0", "0">>}

\* the text of the test was processed
C21_Witness ==
    /\ refs # <<>>
    /\ ref_text = SimpleTestText
    /\ Len(refs[1]) = 2

\* char::is_alphanumeric on the characters of the texts
IsAlphanumeric(ch) == ch \in {"a", "U"} \/ is_digit(ch)

\* the character that starts at byte offset b of t, if any
CharAt(t, b) == byte_slice(t, b, b + 1)

\* C25: a sentence that split_sentences ends before the end of the text is
\* not followed directly by an alphanumeric character.
C25_BoundaryBeforeNonAlphanumeric ==
    max_tokens >= 1 =>
        \A k \in 1..Len(sentences) :
            sentences[k].byte_end < len(text)
            => ~IsAlphanumeric(CharAt(text, sentences[k].byte_end)[1])

\* C26: the bytes [byte_start, byte_end) of the text are the text of the
\* sentence.
C26_SentenceIsSubstring ==
    max_tokens >= 1 =>
        \A k \in 1..Len(sentences) :
            byte_slice(text, sentences[k].byte_start, sentences[k].byte_end)
                = sentences[k].text

\* C27: a sentence of more than max_tokens words flushes the pending chunk;
\* every window pushed for it has max_tokens words, or fewer if it holds the
\* last word; its offsets are the sentence's start plus the offsets of its
\* first and last word; the next window starts overlap_tokens words before
\* the end of this one.
C27_ForceSplitWindows ==
    [][/\ (/\ pc = "for_sentence"
           /\ idx <= Len(sentences)
           /\ approx_token_count(sentences[idx].text) > max_tokens
           /\ current_chunk # <<>>)
          => chunks' = Append(chunks, spans_to_chunk(current_chunk))
       /\ (pc = "split_by_words" /\ Len(chunks') = Len(chunks) + 1)
          => LET w == chunks'[Len(chunks')]
                 n == approx_token_count(w.text)
                 first == words[start + 1]
                 last == words[start + n]
             IN  /\ n >= 1
                 /\ n = max_tokens \/ (n < max_tokens /\ start + n = Len(words))
                 /\ w.char_start = sentences[idx].byte_start + first.off
                 /\ w.char_end = sentences[idx].byte_start + last.off + len(last.w)
                 /\ pc' = "split_by_words" => start' = start + n - overlap_tokens
      ]_vars

\* C29: when chunk_text returns, every word of the text lies within the byte
\* range of one of the chunks.
C29_EveryWordInAChunk ==
    Returned =>
        \A k \in 1..Len(split_whitespace(text)) :
            LET word == split_whitespace(text)[k]
            IN  \E c \in 1..Len(chunks) :
                    /\ chunks[c].char_start <= word.off
                    /\ word.off + len(word.w) <= chunks[c].char_end

\* the places (key, position) of lookup that hold id
LookupPlaces(r, id) ==
    {<<key, k>> \in UNION {{key} \X (1..Len(r.lookup[key])) : key \in DOMAIN r.lookup}
        : r.lookup[<<key[1], key[2]>>][k] = id}

\* C28: the nodes of a run have the ids 1..N in creation order; every id is
\* in lookup at exactly one place, in the list of its node's own
\* (source, source_id); every list is in ascending order.
C28_LookupHoldsEveryIdOnce ==
    \A r \in 1..Len(results) :
        /\ \A i \in 1..Len(results[r].nodes) :
               /\ results[r].nodes[i].id = i
               /\ Cardinality(LookupPlaces(results[r], i)) = 1
               /\ \E k \in 1..Len(results[r].lookup[<<results[r].nodes[i].source,
                                                      results[r].nodes[i].source_id>>]) :
                      results[r].lookup[<<results[r].nodes[i].source,
                                          results[r].nodes[i].source_id>>][k] = i
        /\ \A key \in DOMAIN results[r].lookup :
               /\ results[r].lookup[key] # <<>>
               /\ \A k \in 1..(Len(results[r].lookup[key]) - 1) :
                      results[r].lookup[key][k] < results[r].lookup[key][k + 1]

C28_Witness ==
    \E r \in 1..Len(results) :
        /\ Cardinality(DOMAIN results[r].lookup) >= 2
        /\ \E key \in DOMAIN results[r].lookup : Len(results[r].lookup[key]) >= 2

(***************************************************************************)
(* Properties of embed_all.                                                *)
(***************************************************************************)
\* the vectors so far are those of the first offset texts, in order; Ok means
\* all of them
C30_Aligned ==
    /\ Len(all_embeddings) = offset
    /\ \A i \in 1..Len(all_embeddings) : all_embeddings[i] = vector_of(embed_texts[i])
    /\ embed_pc = "ok" => Len(all_embeddings) = Len(embed_texts)
    /\ embed_pc = "while" => current_batch_size >= 1

\* what a failed batch leads to
C30_Retry ==
    /\ (embed_pc = "while" /\ last_result' = "memory" /\ current_batch_size > 1)
       => /\ offset' = offset
          /\ all_embeddings' = all_embeddings
          /\ current_batch_size' = Max2(current_batch_size \div 2, 1)
          /\ embed_pc' = "while"
    /\ (embed_pc = "while" /\ last_result' = "memory" /\ current_batch_size = 1)
       => embed_pc' = "err"
    /\ (embed_pc = "while" /\ last_result' = "other") => embed_pc' = "err"

\* C30: embed_all keeps texts and vectors aligned whatever batches fail: a
\* batch failing under memory pressure is retried from the same offset with
\* half the batch size, at least 1; Ok returns the vector of every text, in
\* order; a failure at batch size 1 or of another kind returns the error.
C30_EmbedAllAligned == [](C30_Aligned) /\ [][C30_Retry]_vars

C30_Witness ==
    /\ embed_pc = "ok"
    /\ Len(embed_texts) = MaxTexts
    /\ embed_texts[1] # embed_texts[2]
    /\ current_batch_size = 1
    /\ batch_size > 2

(***************************************************************************)
(* Properties of write_embeddings.                                         *)
(***************************************************************************)
\* C24: with node_ids and embeddings of different lengths write_embeddings
\* stops at the assertion: no row is inserted in the transaction and the
\* embeddings table keeps its rows.
C24_LengthMismatchAborts ==
    /\ [](Len(node_ids) # Len(embeddings)
          => tx_rows = <<>> /\ writer_pc \in {"idle", "write_embeddings", "panic"})
    /\ [][Len(node_ids) # Len(embeddings)
          => embeddings_table' = embeddings_table /\ writer_pc' = "panic"]_vars

C24_Witness ==
    /\ writer_pc = "panic"
    /\ Len(node_ids) = 2
    /\ Len(embeddings) = 1
    /\ embeddings_table # {}

(***************************************************************************)
(* Properties of run_etl followed by build_nodes.                          *)
(***************************************************************************)
\* what a run may build from the raw tables
Built(tables) ==
    LET c == run_etl(tables, CHOOSE o \in unique_orders(tables["virginia_code"]) : TRUE)
    IN  build_nodes(c,
            CHOOSE o \in Orders(DOMAIN titles_seen(c["virginia_code"])) : TRUE,
            CHOOSE o \in Orders(DOMAIN chapters_seen(c["virginia_code"])) : TRUE,
            CHOOSE o \in Orders(DOMAIN articles_seen(c["constitution"])) : TRUE)

\* the nodes of a result without their ids
NodeIdentities(r) ==
    {<<r.nodes[i].source, r.nodes[i].source_id, r.nodes[i].chunk_idx,
       r.nodes[i].node_type>> : i \in 1..Len(r.nodes)}

\* two results hold the same nodes and the same lookup keys
SameGraph(r, q) ==
    /\ NodeIdentities(r) = NodeIdentities(q)
    /\ Len(r.nodes) = Len(q.nodes)
    /\ DOMAIN r.lookup = DOMAIN q.lookup

CodeHasKey(row) == row.section # ""
AuthorityHasKey(row) == row.short_name # ""
PopularNameHasKey(row) == row.name # ""
DocumentHasKey(row) == row.filename # ""

\* the raw tables without the records whose structural key is empty
WithKeys(tables) ==
    [t \in Tables |->
        CASE t = "virginia_code" -> SelectSeq(tables[t], CodeHasKey)
          [] t = "authorities" -> SelectSeq(tables[t], AuthorityHasKey)
          [] t = "popular_names" -> SelectSeq(tables[t], PopularNameHasKey)
          [] t = "documents" -> SelectSeq(tables[t], DocumentHasKey)
          [] OTHER -> tables[t]]

\* C22: the records with an empty structural key leave no trace: the run
\* builds the nodes and lookup keys it builds without them, and no lookup
\* key has an empty source_id.
C22_EmptyKeySkipped ==
    \A r \in 1..Len(results) :
        /\ SameGraph(results[r], Built(WithKeys(raw)))
        /\ \A key \in DOMAIN results[r].lookup : key[2] # ""

C22_Witness ==
    /\ results # <<>>
    /\ Len(raw["virginia_code"]) = 2
    /\ raw["virginia_code"][1].section = ""
    /\ raw["virginia_code"][1].body = BodyHtml
    /\ raw["virginia_code"][2].section # ""
    /\ \E i \in 1..Len(results[1].nodes) : results[1].nodes[i].node_type = "section"

CodeHasBody(row) == strip_html(row.body) # <<>>
ConstitutionHasBody(row) == strip_html(row.section_text) # <<>>
AuthorityHasBody(row) == strip_html(row.body) # <<>>
PopularNameHasBody(row) == strip_html(row.body) # <<>>
DocumentHasBody(row) == strip_html(row.content) # <<>>

\* the raw tables without the records whose body is empty once normalized
WithBodies(tables) ==
    [t \in Tables |->
        CASE t = "virginia_code" -> SelectSeq(tables[t], CodeHasBody)
          [] t = "constitution" -> SelectSeq(tables[t], ConstitutionHasBody)
          [] t = "authorities" -> SelectSeq(tables[t], AuthorityHasBody)
          [] t = "popular_names" -> SelectSeq(tables[t], PopularNameHasBody)
          [] t = "documents" -> SelectSeq(tables[t], DocumentHasBody)
          [] OTHER -> tables[t]]

\* C23: the records whose body is empty once normalized yield no node: the
\* run builds the nodes it builds without them.
C23_EmptyBodyDropped ==
    \A r \in 1..Len(results) : SameGraph(results[r], Built(WithBodies(raw)))

====
